---- MODULE Spec2Model ----
(***************************************************************************)
(* KeyTagger: the media scanner (core/Scanner.cpp), the SQLite store       *)
(* (core/Database.cpp) and the window that drives them (ui/MainWindow.cpp) *)
(* as a state machine.                                                     *)
(*                                                                         *)
(* Threads: the main (GUI) thread runs Scanner's methods and the queued    *)
(* slots; every scanDirectory() starts one QThread that runs               *)
(* ScannerWorker::process().  A run is identified by its number 1, 2, ...  *)
(***************************************************************************)
EXTENDS Integers, Sequences, FiniteSets, TLC

\* ------------------------------------------------------------------ bounds
\* scanDirectory() calls in one behaviour
MaxRuns == 2
\* changes the user makes to the files on disk in one behaviour
MaxFsOps == 1
\* exceptions raised while files are processed in one behaviour
MaxThrows == 1
\* largest media row id and largest tag row id the store API calls hand out
MaxMediaId == 2
MaxTagId == 2

\* ------------------------------------------------------------- value model
\* A QString is the sequence of its characters.
Upper == << "A", "B", "C", "D", "E", "F", "G", "H", "I", "J", "K", "L", "M",
            "N", "O", "P", "Q", "R", "S", "T", "U", "V", "W", "X", "Y", "Z" >>
Lower == << "a", "b", "c", "d", "e", "f", "g", "h", "i", "j", "k", "l", "m",
            "n", "o", "p", "q", "r", "s", "t", "u", "v", "w", "x", "y", "z" >>
HexDigits == << "0", "1", "2", "3", "4", "5", "6", "7", "8", "9",
                "a", "b", "c", "d", "e", "f" >>
Whitespace == {" ", "\t", "\n"}

LowerChar(c) ==
  IF \E i \in 1..Len(Upper) : Upper[i] = c
  THEN Lower[CHOOSE i \in 1..Len(Upper) : Upper[i] = c]
  ELSE c

\* QString::toLower
toLower(s) == [i \in 1..Len(s) |-> LowerChar(s[i])]

\* QString::trimmed
RECURSIVE trimmed(_)
trimmed(s) ==
  IF s = <<>> THEN s
  ELSE IF Head(s) \in Whitespace THEN trimmed(Tail(s))
  ELSE IF s[Len(s)] \in Whitespace THEN trimmed(SubSeq(s, 1, Len(s) - 1))
  ELSE s

\* QString::number(n, 16) for one hex digit
HexDigit(n) == << HexDigits[(n % 16) + 1] >>

\* SQL NULL / empty QString / unset std::optional, one per column type
NoText == <<>>
NoInt == -1
NoDir == <<>>
NoPath == [dir |-> NoDir, stem |-> NoText, ext |-> NoText]
NullHandle == 0

\* File contents: data 0 is a byte sequence no decoder accepts; gen counts
\* how many times the bytes went through the thumbnail encoder.
Corrupt == 0
Bytes(d, g) == [data |-> d, gen |-> g]

jpg == << "j", "p", "g" >>
JPG == << "J", "P", "G" >>
png == << "p", "n", "g" >>
mp4 == << "m", "p", "4" >>
mp3 == << "m", "p", "3" >>
txt == << "t", "x", "t" >>
Dot == << "." >>

IMAGE_EXTENSIONS == { Dot \o jpg, Dot \o png }
VIDEO_EXTENSIONS == { Dot \o mp4 }
AUDIO_EXTENSIONS == { Dot \o mp3 }

\* ------------------------------------------------------------------ paths
\* A path is its directory (the components below "/"), the file's base name
\* and its suffix.
RootA == <<"a">>
RootB == <<"a", "b">>
Roots == {RootA, RootB}

IsPrefix(s, t) == Len(s) <= Len(t) /\ SubSeq(t, 1, Len(s)) = s

FilePath(d, stem, ext) == [dir |-> d, stem |-> stem, ext |-> ext]

\* "." + QFileInfo::suffix().toLower()
DotExt(path) == Dot \o toLower(path.ext)

\* QFileInfo::fileName()
FileName(path) == path.stem \o Dot \o path.ext

\* MediaRecord::typeFromExtension
typeFromExtension(ext) ==
  IF toLower(ext) \in IMAGE_EXTENSIONS THEN "image"
  ELSE IF toLower(ext) \in VIDEO_EXTENSIONS THEN "video"
  ELSE IF toLower(ext) \in AUDIO_EXTENSIONS THEN "audio"
  ELSE "unknown"

isImageFile(path) == DotExt(path) \in IMAGE_EXTENSIONS
isVideoFile(path) == DotExt(path) \in VIDEO_EXTENSIONS

\* The files the user keeps under the two roots
PathP == FilePath(RootA, <<"p">>, jpg)
PathQ == FilePath(RootB, <<"q">>, JPG)
PathV == FilePath(RootA, <<"v">>, mp4)
PathS == FilePath(RootB, <<"s">>, mp3)
PathN == FilePath(RootA, <<"n">>, txt)

\* MainWindow::onScanFolder: the thumbnails directory handed to the scanner
ThumbDirOf(folder) == Append(folder, "thumbnails")

\* ------------------------------------------------------- content functions
\* QCryptographicHash::Sha256 as hex: injective on the bytes
computeSha256(bytes) == HexDigit(bytes.data) \o HexDigit(bytes.gen)

Decodable(bytes) == bytes.data # Corrupt

\* computeImagePHash: empty when cv::imread yields no image
computeImagePHash(bytes) ==
  IF Decodable(bytes) THEN HexDigit(bytes.data) ELSE NoText

\* QImageReader::size().width(): -1 when the header cannot be read
getImageDimensions(bytes) == IF Decodable(bytes) THEN 100 ELSE -1

\* getVideoDimensions: {0,0} when the capture cannot be opened
getVideoDimensions(bytes) == IF Decodable(bytes) THEN 640 ELSE 0

\* QFileInfo::size()
SizeOf(bytes) == 1 + bytes.data + 10 * bytes.gen

\* What the JPEG encoder writes for a decodable source
ThumbBytes(bytes) == Bytes(bytes.data, bytes.gen + 1)

\* QDir(m_thumbnailsDir).filePath(sha256 + ".jpg")
ThumbPathFor(thumbnailsDir, sha256) == FilePath(thumbnailsDir, sha256, jpg)

\* ------------------------------------------------------------------ store
\* media(id, file_path UNIQUE, root_dir, ..., status, error): a set of rows.
\* tags(id, name UNIQUE) and media_tags(media_id, tag_id) likewise.

SetMax(S) == CHOOSE m \in S : \A n \in S : n <= m

\* INTEGER PRIMARY KEY (no AUTOINCREMENT): a new row gets max(id) + 1
NextRowId(rows) == IF rows = {} THEN 1 ELSE SetMax({r.id : r \in rows}) + 1

\* MediaRecord as default-constructed
MediaRecord ==
  [ id |-> 0, filePath |-> NoPath, rootDir |-> NoDir, fileName |-> NoText,
    sha256 |-> NoText, pHash |-> NoText, width |-> NoInt, height |-> NoInt,
    sizeBytes |-> NoInt, capturedTimeUtc |-> NoInt, modifiedTimeUtc |-> NoInt,
    mediaType |-> "unknown", thumbnailPath |-> NoPath, status |-> "active",
    error |-> NoText ]

\* The row INSERT ... VALUES (...) builds for a record
InsertedRow(id, record) ==
  [ id |-> id, file_path |-> record.filePath, root_dir |-> record.rootDir,
    file_name |-> record.fileName, sha256 |-> record.sha256,
    p_hash |-> record.pHash, width |-> record.width, height |-> record.height,
    size_bytes |-> record.sizeBytes,
    captured_time_utc |-> record.capturedTimeUtc,
    modified_time_utc |-> record.modifiedTimeUtc,
    media_type |-> record.mediaType, thumbnail_path |-> record.thumbnailPath,
    status |-> "active", error |-> record.error ]

\* ON CONFLICT(file_path) DO UPDATE SET ...: id, root_dir and file_name stay
ConflictUpdatedRow(row, record) ==
  [ row EXCEPT !.sha256 = record.sha256, !.p_hash = record.pHash,
               !.width = record.width, !.height = record.height,
               !.size_bytes = record.sizeBytes,
               !.captured_time_utc = record.capturedTimeUtc,
               !.modified_time_utc = record.modifiedTimeUtc,
               !.media_type = record.mediaType,
               !.thumbnail_path = record.thumbnailPath,
               !.status = "active", !.error = record.error ]

\* A plain INSERT: the path is no key and every call adds a row
insertMedia(rows, record) == rows \cup { InsertedRow(NextRowId(rows), record) }

\* Database::upsertMedia: the table after the statement
upsertMedia(rows, record) ==
  IF \E r \in rows : r.file_path = record.filePath
  THEN { IF r.file_path = record.filePath THEN ConflictUpdatedRow(r, record) ELSE r
         : r \in rows }
  ELSE rows \cup { InsertedRow(NextRowId(rows), record) }

\* Database::upsertMedia: the id it returns (SELECT id WHERE file_path = ?)
upsertMediaId(rows, record) ==
  LET after == upsertMedia(rows, record)
      hit == { r \in after : r.file_path = record.filePath }
  IN IF hit = {} THEN 0 ELSE (CHOOSE r \in hit : TRUE).id

\* Database::deleteMedia: DELETE FROM media WHERE file_path = ?. The connection
\* never runs PRAGMA foreign_keys = ON, so no ON DELETE CASCADE fires and
\* media_tags stays as it is.
deleteMedia(rows, filePath) == { r \in rows : r.file_path # filePath }

\* Database::updateThumbnailPath
updateThumbnailPath(rows, filePath, thumbnailPath) ==
  { IF r.file_path = filePath THEN [r EXCEPT !.thumbnail_path = thumbnailPath] ELSE r
    : r \in rows }

SeqToSet(s) == { s[i] : i \in 1..Len(s) }

\* The missing rows are removed from the table instead of being marked
markMissingFilesRemoved(rows, existingPaths, rootDir) ==
  { r \in rows : ~(/\ r.root_dir = rootDir /\ r.status = "active"
                   /\ r.file_path \notin SeqToSet(existingPaths)) }

\* QDir(dir).absolutePath(): the path without its "." components
absolutePath(dir) == SelectSeq(dir, LAMBDA c : c # ".")

\* No row is marked
markMissingFilesNever(rows, existingPaths, rootDir) == rows

\* The rows of every root are marked
markMissingFilesOfAllRoots(rows, existingPaths, rootDir) ==
  { IF r.status = "active" /\ r.file_path \notin SeqToSet(existingPaths)
    THEN [r EXCEPT !.status = "deleted"] ELSE r : r \in rows }

\* Database::markMissingFilesDeleted: the table after the UPDATE
markMissingFilesDeleted(rows, existingPaths, rootDir) ==
  IF existingPaths = <<>>
  THEN { IF r.root_dir = absolutePath(rootDir) /\ r.status = "active"
         THEN [r EXCEPT !.status = "deleted"] ELSE r : r \in rows }
  ELSE { IF r.root_dir = absolutePath(rootDir) /\ r.status = "active"
            /\ r.file_path \notin SeqToSet(existingPaths)
         THEN [r EXCEPT !.status = "deleted"] ELSE r : r \in rows }

\* query.numRowsAffected() of that UPDATE: the rows its WHERE clause matched
markMissingFilesAffected(rows, existingPaths, rootDir) ==
  Cardinality({ r \in rows : /\ r.root_dir = absolutePath(rootDir)
                              /\ r.status = "active"
                              /\ r.file_path \notin SeqToSet(existingPaths) })

\* Database::existingMediaMapForRoot: file_path -> the columns the scan compares
existingMediaMapForRoot(rows, rootDir) ==
  LET hit == { r \in rows : r.root_dir = rootDir /\ r.status = "active" }
  IN [ p \in { r.file_path : r \in hit } |->
         LET r == CHOOSE x \in hit : x.file_path = p
         IN [ size_bytes |-> r.size_bytes, modified_time_utc |-> r.modified_time_utc,
              thumbnail_path |-> r.thumbnail_path, sha256 |-> r.sha256,
              media_type |-> r.media_type ] ]

\* QVariant::toLongLong(): NULL converts to 0
toLongLong(v) == IF v = NoInt THEN 0 ELSE v

\* ------------------------------------------------------------- store: tags
\* QString::trimmed() alone: the case of the name is kept
normalizeTagKeepsCase(name) == trimmed(name)

\* QString::trimmed().toLower() as every tag operation applies it
normalizeTag(name) == toLower(trimmed(name))

\* The id of the tag row named name, 0 when there is none
tagIdOf(tagRows, name) ==
  IF \E t \in tagRows : t.name = name
  THEN (CHOOSE t \in tagRows : t.name = name).id
  ELSE 0

\* Database::upsertTags: the tags table after the loop over tagNames
RECURSIVE upsertTags(_, _)
upsertTags(tagRows, tagNames) ==
  IF tagNames = <<>> THEN tagRows
  ELSE LET normalized == normalizeTag(Head(tagNames))
           inserted ==
             IF normalized = NoText \/ (\E t \in tagRows : t.name = normalized)
             THEN tagRows
             ELSE tagRows \cup { [id |-> NextRowId(tagRows), name |-> normalized] }
       IN upsertTags(inserted, Tail(tagNames))

\* Database::upsertTags: the ids it returns, one per non-empty name
upsertTagIds(tagRows, tagNames) ==
  LET after == upsertTags(tagRows, tagNames)
      kept == SelectSeq(tagNames, LAMBDA n : normalizeTag(n) # NoText)
  IN [ i \in 1..Len(kept) |-> tagIdOf(after, normalizeTag(kept[i])) ]

\* INSERT OR IGNORE INTO media_tags for every id of tagIds
linkAll(links, mediaId, tagIds) ==
  links \cup { [media_id |-> mediaId, tag_id |-> tagIds[i]] : i \in 1..Len(tagIds) }

\* setMediaTags without its DELETE FROM media_tags WHERE media_id = ?
setMediaTagsKeepsOld(tagRows, links, mediaId, tagNames) ==
  linkAll(links, mediaId, upsertTagIds(tagRows, tagNames))

\* Database::setMediaTags: media_tags after the call
setMediaTags(tagRows, links, mediaId, tagNames) ==
  linkAll({ l \in links : l.media_id # mediaId }, mediaId,
          upsertTagIds(tagRows, tagNames))

\* Database::addMediaTags: media_tags after the call
addMediaTags(tagRows, links, mediaId, tagNames) ==
  linkAll(links, mediaId, upsertTagIds(tagRows, tagNames))

\* Database::removeMediaTags: media_tags after the call
removeMediaTags(tagRows, links, mediaId, tagNames) ==
  LET normalized == { normalizeTag(tagNames[i]) : i \in 1..Len(tagNames) } \ {NoText}
      tagIds == { t.id : t \in { t \in tagRows : t.name \in normalized } }
  IN { l \in links : ~(l.media_id = mediaId /\ l.tag_id \in tagIds) }

\* Database::removeTagGlobally: [tags, media_tags, affected] after the call
removeTagGlobally(tagRows, links, tagName) ==
  LET normalized == normalizeTag(tagName)
      tagId == tagIdOf(tagRows, normalized)
      left == { l \in links : l.tag_id # tagId }
  IN IF normalized = NoText \/ tagId = 0
     THEN [tags |-> tagRows, media_tags |-> links, affected |-> 0]
     ELSE [ tags |-> IF \E l \in left : l.tag_id = tagId THEN tagRows
                     ELSE { t \in tagRows : t.id # tagId },
            media_tags |-> left,
            affected |-> Cardinality(links \ left) ]

\* Database::getMediaTags (as a set; the result is ordered by name)
getMediaTags(tagRows, links, mediaId) ==
  { t.name : t \in { t \in tagRows :
        \E l \in links : l.media_id = mediaId /\ l.tag_id = t.id } }

\* Database::allTags (as a set; the result is ordered by name)
allTags(tagRows) == { t.name : t \in tagRows }

\* ------------------------------------------------------------ store: query
\* file_name LIKE '%text%': SQLite compares ASCII letters case-insensitively
Like(fileName, searchText) ==
  \E i \in 1..(Len(fileName) + 1) :
    /\ i + Len(searchText) - 1 <= Len(fileName)
    /\ toLower(SubSeq(fileName, i, i + Len(searchText) - 1)) = toLower(searchText)

DefaultOrder == "modified_time_utc DESC, id DESC"

\* ORDER BY modified_time_utc DESC, id DESC: a comes before b
Before(a, b) ==
  \/ a.modified_time_utc > b.modified_time_utc
  \/ a.modified_time_utc = b.modified_time_utc /\ a.id > b.id

\* The rows of S in that order: the i-th row has i - 1 rows before it
orderRows(S) ==
  LET ahead == [ a \in S |-> Cardinality({ b \in S : Before(b, a) }) ]
  IN [ i \in 1..Cardinality(S) |-> CHOOSE a \in S : ahead[a] = i - 1 ]

\* The tag subquery with its HAVING clause in both branches
taggedMediaIdsCounted(tagRows, links, requiredTags, tagsMatchAll) ==
  LET normalizedTags == [ i \in 1..Len(requiredTags) |-> normalizeTag(requiredTags[i]) ]
      tagIds == { t.id : t \in { t \in tagRows : t.name \in SeqToSet(normalizedTags) } }
      hits(m) == { l.tag_id : l \in { l \in links : l.media_id = m /\ l.tag_id \in tagIds } }
      grouped == { l.media_id : l \in { l \in links : l.tag_id \in tagIds } }
  IN { m \in grouped : Cardinality(hits(m)) = Len(normalizedTags) }

\* The tag subquery of queryMedia: the media ids it selects
taggedMediaIds(tagRows, links, requiredTags, tagsMatchAll) ==
  LET normalizedTags == [ i \in 1..Len(requiredTags) |-> normalizeTag(requiredTags[i]) ]
      tagIds == { t.id : t \in { t \in tagRows : t.name \in SeqToSet(normalizedTags) } }
      hits(m) == { l.tag_id : l \in { l \in links : l.media_id = m /\ l.tag_id \in tagIds } }
      grouped == { l.media_id : l \in { l \in links : l.tag_id \in tagIds } }
  IN IF tagsMatchAll
     THEN { m \in grouped : Cardinality(hits(m)) = Len(normalizedTags) }
     ELSE grouped

\* The WHERE clause with a tag condition even for an empty list of tags
whereSQLAlwaysTagged(rows, tagRows, links, requiredTags, searchText, rootDir, tagsMatchAll) ==
  { r \in rows :
      /\ r.status = "active"
      /\ searchText # NoText => Like(r.file_name, searchText)
      /\ r.id \in taggedMediaIds(tagRows, links, requiredTags, tagsMatchAll)
      /\ rootDir # NoDir => r.root_dir = rootDir }

\* The WHERE clause of queryMedia
whereSQL(rows, tagRows, links, requiredTags, searchText, rootDir, tagsMatchAll) ==
  { r \in rows :
      /\ r.status = "active"
      /\ searchText # NoText => Like(r.file_name, searchText)
      /\ requiredTags # <<>> =>
           r.id \in taggedMediaIds(tagRows, links, requiredTags, tagsMatchAll)
      /\ rootDir # NoDir => r.root_dir = rootDir }

\* LIMIT limit of a row sequence, the offset left out
PageIgnoringOffset(ordered, limit, offset) ==
  SubSeq(ordered, 1, IF limit < Len(ordered) THEN limit ELSE Len(ordered))

\* LIMIT limit OFFSET offset of a row sequence
Page(ordered, limit, offset) ==
  SubSeq(ordered, offset + 1,
         IF offset + limit < Len(ordered) THEN offset + limit ELSE Len(ordered))

\* queryMedia with the total counted over the page it returns
queryMediaCountsPage(rows, tagRows, links, requiredTags, searchText, limit, offset, rootDir, tagsMatchAll) ==
  LET hit == whereSQL(rows, tagRows, links, requiredTags, searchText, rootDir,
                      tagsMatchAll)
  IN [ records |-> Page(orderRows(hit), limit, offset),
       totalCount |-> Len(Page(orderRows(hit), limit, offset)) ]

\* Database::queryMedia with the default ordering
queryMedia(rows, tagRows, links, requiredTags, searchText, limit, offset, rootDir, tagsMatchAll) ==
  LET hit == whereSQL(rows, tagRows, links, requiredTags, searchText, rootDir,
                      tagsMatchAll)
  IN [ records |-> Page(orderRows(hit), limit, offset),
       totalCount |-> Cardinality(hit) ]

\* Database::tagCounts: name -> COUNT(mt.media_id) of the tag's group. Both
\* joins are LEFT JOINs: a media_tags row stays in the group when no active
\* media row joins it (m is then empty), and the count is over mt.media_id.
tagCounts(rows, tagRows, links) ==
  [ name \in { t.name : t \in tagRows } |->
      LET t == CHOOSE x \in tagRows : x.name = name
          joined == { [ mt |-> l,
                        m |-> { r \in rows : r.id = l.media_id /\ r.status = "active" } ]
                      : l \in { l \in links : l.tag_id = t.id } }
      IN Cardinality(joined) ]

\* ------------------------------------------------------------------ state
VARIABLES
  fs,             \* the files on disk: path -> [bytes, mtime]
  fsOps,          \* how many times the user changed a file
  media,          \* table media
  tags,           \* table tags
  media_tags,     \* table media_tags
  m_worker,       \* Scanner::m_worker: a run number or NullHandle
  m_workerThread, \* Scanner::m_workerThread: a run number or NullHandle
  runs,           \* run number -> its ScannerWorker and QThread
  mainQueue,      \* queued slot invocations posted to the main thread
  mainPc,         \* where the main thread is: idle, or blocked in QThread::wait
  crashed,        \* the process died (a null or dangling handle was used)
  thrown,         \* how many exceptions the loop body has raised
  overwrites,     \* thumbnail files encoded again while they existed
  lastCall,       \* the last call made straight to the store, with its result
  m_cache,        \* ThumbnailCache::m_cache: the entries, most recently used first
  m_pendingRequests, \* ThumbnailCache::m_pendingRequests: media ids
  m_threadPool,   \* ThumbnailCache::m_threadPool: tasks queued and tasks running
  cacheQueue,     \* queued invocations posted to the cache object
  tasksMade,      \* how many ThumbnailLoadTasks were constructed
  cacheCall       \* the last call or delivery on the cache, with what it did

vars == << fs, fsOps, media, tags, media_tags, m_worker, m_workerThread, runs,
           mainQueue, mainPc, crashed, thrown, overwrites, lastCall,
           m_cache, m_pendingRequests, m_threadPool, cacheQueue, tasksMade, cacheCall >>

storeVars == << media, tags, media_tags >>
scannerVars == << m_worker, m_workerThread, runs, mainQueue, mainPc, crashed, thrown >>
fileVars == << fs, fsOps, overwrites >>
cacheVars == << m_cache, m_pendingRequests, m_threadPool, cacheQueue, tasksMade, cacheCall >>

\* The clock the file times are read from: it moves with the user's changes
Now == 1 + fsOps

File(bytes, mtime) == [bytes |-> bytes, mtime |-> mtime]

Exists(files, path) == path \in DOMAIN files

WriteFile(files, path, bytes, mtime) ==
  [ p \in DOMAIN files \cup {path} |-> IF p = path THEN File(bytes, mtime) ELSE files[p] ]

RemoveFile(files, path) == [ p \in DOMAIN files \ {path} |-> files[p] ]

\* The library the user starts with: two media files and a text file
Library(p1, b1, p2, b2) ==
  WriteFile(WriteFile(WriteFile(<<>>, PathN, Bytes(5, 0), 1), p1, b1, 1), p2, b2, 1)

InitialFilesystems ==
  { Library(PathP, Bytes(1, 0), PathQ, Bytes(1, 0)),
    Library(PathP, Bytes(1, 0), PathQ, Bytes(Corrupt, 0)),
    Library(PathV, Bytes(3, 0), PathS, Bytes(4, 0)),
    Library(PathV, Bytes(Corrupt, 0), PathP, Bytes(2, 0)) }

\* -------------------------------------------------------------- the scanner
ScanResult == [scanned |-> 0, addedOrUpdated |-> 0, errors |-> 0]

\* QDirIterator: the order in which a walk delivers the set S of files, a
\* function of the directory's content
RECURSIVE DirectoryOrder(_)
DirectoryOrder(S) ==
  IF S = {} THEN <<>>
  ELSE LET first == CHOOSE p \in S : TRUE
       IN <<first>> \o DirectoryOrder(S \ {first})

\* Scanner::listMediaFiles: the media files at or below rootDir
listMediaFiles(files, rootDir) ==
  { p \in DOMAIN files :
      /\ IsPrefix(rootDir, p.dir)
      /\ DotExt(p) \in IMAGE_EXTENSIONS \cup VIDEO_EXTENSIONS \cup AUDIO_EXTENSIONS }

\* ScannerWorker and its QThread, as scanDirectory() creates them
NewRun(rootDir, thumbnailsDir) ==
  [ m_rootDir |-> absolutePath(rootDir), m_thumbnailsDir |-> thumbnailsDir,
    m_cancelled |-> FALSE, pc |-> "started", quit |-> FALSE,
    files |-> <<>>, marked |-> 0, total |-> 0, idx |-> 0, existingMap |-> <<>>,
    result |-> ScanResult,
    progressEmitted |-> 0, scanProgress |-> 0, scanFinished |-> 0,
    lateProgress |-> FALSE, summary |-> ScanResult ]

RunIds == DOMAIN runs

\* process() of run r is on the worker thread's stack
InProcess(r) == runs[r].pc \in {"mark", "snapshot", "loop", "file"}

\* QThread::isRunning() of run r's thread
ThreadRunning(r) == runs[r].pc # "finished"

\* Scanner::isRunning
isRunning == m_workerThread # NullHandle /\ ThreadRunning(m_workerThread)

\* getImageCaptureTime: the EXIF date, 0 when the file carries none
getImageCaptureTime(bytes) == IF bytes.data = 2 /\ bytes.gen = 0 THEN 7 ELSE 0

\* createImageThumbnail / createVideoThumbnail: true iff the source decodes
thumbnailCreated(bytes) == Decodable(bytes)

\* No thumbnail is written
createThumbnailNever(files, bytes, destPath, now) == files

\* createImageThumbnail / createVideoThumbnail: the files after the call
createThumbnail(files, bytes, destPath, now) ==
  IF thumbnailCreated(bytes) THEN WriteFile(files, destPath, ThumbBytes(bytes), now)
  ELSE files

\* what() of the exceptions the loop body can raise
ExceptionMessages == { << "b", "a", "d", "_", "a", "l", "l", "o", "c" >> }

\* The counter is left as it is
BumpForgets(result, field) == result

\* ++ on one counter of the ScanResult
Bump(result, field) == [result EXCEPT ![field] = @ + 1]

\* A thumbnail is encoded whether or not the file is there already
alwaysEncodes(files, thumbPath) == TRUE

\* if (!QFile::exists(thumbPath)) before a thumbnail is created
needsThumbnail(files, thumbPath) == ~Exists(files, thumbPath)

\* The catch block's record, without the kind of the file
errorRecordUnknownKind(run, filePath, what) ==
  [ MediaRecord EXCEPT
      !.filePath = filePath, !.rootDir = run.m_rootDir, !.fileName = FileName(filePath),
      !.error = what ]

\* The record the catch block of the loop body inserts
errorRecordOf(run, filePath, what) ==
  [ MediaRecord EXCEPT
      !.filePath = filePath, !.rootDir = run.m_rootDir, !.fileName = FileName(filePath),
      !.mediaType = typeFromExtension(DotExt(filePath)), !.error = what ]

neverUnchanged(prev, sizeBytes, modifiedTimeUtc) == FALSE

\* The snapshot entry has the file's size and modified time and a hash
unchangedSince(prev, sizeBytes, modifiedTimeUtc) ==
  /\ toLongLong(prev.size_bytes) = sizeBytes
  /\ toLongLong(prev.modified_time_utc) = modifiedTimeUtc
  /\ prev.sha256 # NoText

\* One iteration of the loop body of ScannerWorker::process for files[idx],
\* after the progress signal: the files, the table and the counters it leaves.
\* what # NoText: the full-processing path throws std::exception(what).
processFile(run, files, rows, now, what) ==
  LET filePath == run.files[run.idx + 1]
      fileName == FileName(filePath)
      ext == DotExt(filePath)
      bytes == files[filePath].bytes
      sizeBytes == SizeOf(bytes)
      modifiedTimeUtc == files[filePath].mtime
      prev == run.existingMap[filePath]
      canSkip == /\ filePath \in DOMAIN run.existingMap
                 /\ unchangedSince(prev, sizeBytes, modifiedTimeUtc)
      existingThumb == prev.thumbnail_path
      \* --- create missing thumbnail
      refreshPath == ThumbPathFor(run.m_thumbnailsDir, prev.sha256)
      refreshTried == isImageFile(filePath) \/ isVideoFile(filePath)
      refreshCreated == refreshTried /\ thumbnailCreated(bytes)
      \* --- full processing
      sha256 == computeSha256(bytes)
      fullPath == ThumbPathFor(run.m_thumbnailsDir, sha256)
      mediaType == typeFromExtension(ext)
      makeThumb == mediaType \in {"image", "video"} /\ needsThumbnail(files, fullPath)
      thumbPath ==
        CASE mediaType = "image" -> fullPath
          [] mediaType = "video" ->
               IF makeThumb /\ ~thumbnailCreated(bytes) THEN NoPath ELSE fullPath
          [] OTHER -> NoPath
      width ==
        CASE mediaType = "image" -> getImageDimensions(bytes)
          [] mediaType = "video" -> getVideoDimensions(bytes)
          [] OTHER -> 0
      capturedTime == IF mediaType = "image" THEN getImageCaptureTime(bytes) ELSE 0
      record ==
        [ MediaRecord EXCEPT
            !.filePath = filePath, !.rootDir = run.m_rootDir, !.fileName = fileName,
            !.sha256 = sha256,
            !.pHash = IF mediaType = "image" THEN computeImagePHash(bytes) ELSE NoText,
            !.width = IF width > 0 THEN width ELSE NoInt,
            !.height = IF width > 0 THEN width ELSE NoInt,
            !.sizeBytes = sizeBytes,
            !.capturedTimeUtc = IF capturedTime > 0 THEN capturedTime ELSE NoInt,
            !.modifiedTimeUtc = modifiedTimeUtc,
            !.mediaType = mediaType, !.thumbnailPath = thumbPath ]
      errorRecord == errorRecordOf(run, filePath, what)
  IN
  IF canSkip /\ existingThumb # NoPath /\ Exists(files, existingThumb)
  THEN [ fs |-> files, media |-> rows, result |-> Bump(run.result, "scanned"),
         overwrote |-> FALSE, threw |-> FALSE ]
  ELSE IF canSkip
  THEN [ fs |-> IF refreshTried THEN createThumbnail(files, bytes, refreshPath, now)
                ELSE files,
         media |-> IF refreshCreated /\ refreshPath # existingThumb
                   THEN updateThumbnailPath(rows, filePath, refreshPath) ELSE rows,
         result |-> Bump(run.result, "scanned"),
         overwrote |-> refreshCreated /\ Exists(files, refreshPath), threw |-> FALSE ]
  ELSE IF what # NoText
  THEN [ fs |-> files, media |-> upsertMedia(rows, errorRecord),
         result |-> Bump(Bump(run.result, "errors"), "scanned"),
         overwrote |-> FALSE, threw |-> TRUE ]
  ELSE [ fs |-> IF makeThumb THEN createThumbnail(files, bytes, fullPath, now) ELSE files,
         media |-> upsertMedia(rows, record),
         result |-> IF upsertMediaId(rows, record) > 0
                    THEN Bump(Bump(run.result, "addedOrUpdated"), "scanned")
                    ELSE Bump(run.result, "scanned"),
         overwrote |-> makeThumb /\ thumbnailCreated(bytes) /\ Exists(files, fullPath),
         threw |-> FALSE ]

\* ---------------------------------------------------------- worker thread
\* process(): QStringList files = Scanner::listMediaFiles(m_rootDir)
ProcessList(r) ==
  /\ ~crashed
  /\ runs[r].pc = "started"
  /\ runs' = [runs EXCEPT ![r].pc = "mark",
                          ![r].files = DirectoryOrder(listMediaFiles(fs, runs[r].m_rootDir))]
  /\ UNCHANGED << fs, fsOps, storeVars, m_worker, m_workerThread, mainQueue, mainPc,
                  crashed, thrown, overwrites, lastCall, cacheVars >>

\* process(): m_db->markMissingFilesDeleted(files, m_rootDir); total = files.size()
ProcessMark(r) ==
  /\ ~crashed
  /\ runs[r].pc = "mark"
  /\ media' = markMissingFilesDeleted(media, runs[r].files, runs[r].m_rootDir)
  /\ runs' = [runs EXCEPT ![r].pc = "snapshot", ![r].marked = @ + 1,
                          ![r].total = Len(runs[r].files)]
  /\ UNCHANGED << fs, fsOps, tags, media_tags, m_worker, m_workerThread, mainQueue,
                  mainPc, crashed, thrown, overwrites, lastCall, cacheVars >>

\* process(): existingMap = m_db->existingMediaMapForRoot(m_rootDir)
ProcessSnapshot(r) ==
  /\ ~crashed
  /\ runs[r].pc = "snapshot"
  /\ runs' = [runs EXCEPT ![r].pc = "loop",
                          ![r].existingMap = existingMediaMapForRoot(media, runs[r].m_rootDir)]
  /\ UNCHANGED << fs, fsOps, storeVars, m_worker, m_workerThread, mainQueue, mainPc,
                  crashed, thrown, overwrites, lastCall, cacheVars >>

ProgressEvent(r) == [kind |-> "progress", run |-> r, result |-> ScanResult]
FinishedEvent(r, result) == [kind |-> "finished", run |-> r, result |-> result]
ThreadFinishedEvent(r) == [kind |-> "threadFinished", run |-> r, result |-> ScanResult]

\* The loop condition without its test of the flag
loopIgnoresCancel(run) == run.idx < run.total

\* The loop condition idx < total && !m_cancelled
loopContinues(run) == run.idx < run.total /\ ~run.m_cancelled

\* process(): the loop head. Either emit progress(idx + 1, total, file) and
\* enter the body, or leave the loop and emit finished(result).
ProcessLoop(r) ==
  /\ ~crashed
  /\ runs[r].pc = "loop"
  /\ IF loopContinues(runs[r])
     THEN /\ runs' = [runs EXCEPT ![r].pc = "file", ![r].progressEmitted = @ + 1]
          /\ mainQueue' = Append(mainQueue, ProgressEvent(r))
     ELSE /\ runs' = [runs EXCEPT ![r].pc = "exec"]
          /\ mainQueue' = Append(mainQueue, FinishedEvent(r, runs[r].result))
  /\ UNCHANGED << fs, fsOps, storeVars, m_worker, m_workerThread, mainPc, crashed,
                  thrown, overwrites, lastCall, cacheVars >>

\* process(): the loop body for files[idx], then ++idx
\* what # NoText: an exception with that message is raised in the body
ProcessFile(r, what) ==
  /\ ~crashed
  /\ runs[r].pc = "file"
  /\ what # NoText => thrown < MaxThrows
  /\ \E out \in { processFile(runs[r], fs, media, Now, what) } :
       /\ what # NoText => out.threw
       /\ thrown' = thrown + (IF out.threw THEN 1 ELSE 0)
       /\ fs' = out.fs
       /\ media' = out.media
       /\ overwrites' = overwrites + (IF out.overwrote THEN 1 ELSE 0)
       /\ runs' = [runs EXCEPT ![r].pc = "loop", ![r].idx = @ + 1,
                               ![r].result = out.result]
  /\ UNCHANGED << fsOps, tags, media_tags, m_worker, m_workerThread, mainQueue, mainPc,
                  crashed, lastCall, cacheVars >>

\* QThread::run: exec() returns once quit() was called; the thread emits
\* finished(), which deletes the worker and posts the handle reset to main.
ThreadExit(r) ==
  /\ ~crashed
  /\ runs[r].pc = "exec"
  /\ runs[r].quit
  /\ runs' = [runs EXCEPT ![r].pc = "finished"]
  /\ mainQueue' = Append(mainQueue, ThreadFinishedEvent(r))
  /\ UNCHANGED << fs, fsOps, storeVars, m_worker, m_workerThread, mainPc, crashed,
                  thrown, overwrites, lastCall, cacheVars >>

\* ------------------------------------------------------------ main thread
Idle == [at |-> "idle", thread |-> NullHandle, then |-> "idle", rootDir |-> NoDir,
         thumbnailsDir |-> NoDir]

\* Blocked in m_workerThread->wait(5000) on run t's thread
Waiting(t, then, rootDir, thumbnailsDir) ==
  [at |-> "wait", thread |-> t, then |-> then, rootDir |-> rootDir,
   thumbnailsDir |-> thumbnailsDir]

\* ScannerWorker::cancel on run w, QThread::quit on run t (Scanner::cancel up
\* to the wait); w's worker is alive
cancelAndQuit(rs, w, t) ==
  LET flagged == IF w # NullHandle THEN [rs EXCEPT ![w].m_cancelled = TRUE] ELSE rs
  IN IF t # NullHandle THEN [flagged EXCEPT ![t].quit = TRUE] ELSE flagged

\* scanDirectory() from "m_workerThread = new QThread(this)" to start()
startRun(rs, rootDir, thumbnailsDir) == Append(rs, NewRun(rootDir, thumbnailsDir))

\* Scanner::scanDirectory up to the wait inside cancel(), or to its end when
\* no thread is running
ScanDirectory(rootDir, thumbnailsDir) ==
  /\ ~crashed
  /\ mainPc.at = "idle"
  /\ Len(runs) < MaxRuns
  /\ IF isRunning
     THEN /\ runs' = cancelAndQuit(runs, m_worker, m_workerThread)
          /\ mainPc' = Waiting(m_workerThread, "start", rootDir, thumbnailsDir)
          /\ UNCHANGED << m_worker, m_workerThread >>
     ELSE /\ runs' = startRun(runs, rootDir, thumbnailsDir)
          /\ m_worker' = Len(runs) + 1
          /\ m_workerThread' = Len(runs) + 1
          /\ UNCHANGED mainPc
  /\ UNCHANGED << fs, fsOps, storeVars, mainQueue, crashed, thrown, overwrites, lastCall, cacheVars >>

\* MainWindow::onScanFolder
OnScanFolder(folder) == ScanDirectory(folder, ThumbDirOf(folder))

\* Scanner::cancel, called by the owner (the progress dialog's Cancel).
\* m_worker may point at a worker its finished thread already deleted: the
\* store to its flag is then a write to freed memory.
Cancel ==
  /\ ~crashed
  /\ mainPc.at = "idle"
  /\ m_worker # NullHandle \/ m_workerThread # NullHandle
  /\ IF m_worker # NullHandle /\ ~ThreadRunning(m_worker)
     THEN /\ crashed' \in BOOLEAN
          /\ runs' = cancelAndQuit(runs, NullHandle, m_workerThread)
     ELSE /\ crashed' = crashed
          /\ runs' = cancelAndQuit(runs, m_worker, m_workerThread)
  /\ mainPc' = IF m_workerThread # NullHandle /\ ~crashed'
               THEN Waiting(m_workerThread, "idle", NoDir, NoDir) ELSE mainPc
  /\ UNCHANGED << fs, fsOps, storeVars, m_worker, m_workerThread, mainQueue, thrown, overwrites, lastCall, cacheVars >>

\* What follows the wait: the rest of scanDirectory(), or back to the event loop
AfterWait ==
  /\ mainPc' = Idle
  /\ IF mainPc.then = "start"
     THEN /\ runs' = startRun(runs, mainPc.rootDir, mainPc.thumbnailsDir)
          /\ m_worker' = Len(runs) + 1
          /\ m_workerThread' = Len(runs) + 1
     ELSE UNCHANGED << runs, m_worker, m_workerThread >>
  /\ UNCHANGED << fs, fsOps, storeVars, mainQueue, crashed, thrown, overwrites, lastCall, cacheVars >>

\* wait(5000) returns true: the thread has finished
WaitReturn ==
  /\ ~crashed
  /\ mainPc.at = "wait"
  /\ ~ThreadRunning(mainPc.thread)
  /\ AfterWait

\* wait(5000) returns false: five seconds passed and the thread still runs
WaitTimeout ==
  /\ ~crashed
  /\ mainPc.at = "wait"
  /\ ThreadRunning(mainPc.thread)
  /\ AfterWait

\* connect(m_worker, &ScannerWorker::progress, this, &Scanner::scanProgress)
DispatchProgress ==
  /\ ~crashed
  /\ mainPc.at = "idle"
  /\ mainQueue # <<>>
  /\ Head(mainQueue).kind = "progress"
  /\ LET r == Head(mainQueue).run
     IN runs' = [runs EXCEPT ![r].scanProgress = @ + 1,
                             ![r].lateProgress = @ \/ runs[r].scanFinished > 0]
  /\ mainQueue' = Tail(mainQueue)
  /\ UNCHANGED << fs, fsOps, storeVars, m_worker, m_workerThread, mainPc, crashed,
                  thrown, overwrites, lastCall, cacheVars >>

\* The lambda connected to ScannerWorker::finished:
\*   emit scanFinished(result); m_workerThread->quit();
\* with m_workerThread null the call is through a null pointer.
DispatchFinished ==
  /\ ~crashed
  /\ mainPc.at = "idle"
  /\ mainQueue # <<>>
  /\ Head(mainQueue).kind = "finished"
  /\ LET r == Head(mainQueue).run
         reported == [runs EXCEPT ![r].scanFinished = @ + 1,
                                  ![r].summary = Head(mainQueue).result]
     IN IF m_workerThread = NullHandle
        THEN /\ crashed' \in BOOLEAN
             /\ runs' = reported
        ELSE /\ crashed' = crashed
             /\ runs' = [reported EXCEPT ![m_workerThread].quit = TRUE]
  /\ mainQueue' = Tail(mainQueue)
  /\ UNCHANGED << fs, fsOps, storeVars, m_worker, m_workerThread, mainPc, thrown, overwrites, lastCall, cacheVars >>

\* The lambda connected to QThread::finished:
\*   m_worker = nullptr; m_workerThread = nullptr;
DispatchThreadFinished ==
  /\ ~crashed
  /\ mainPc.at = "idle"
  /\ mainQueue # <<>>
  /\ Head(mainQueue).kind = "threadFinished"
  /\ m_worker' = NullHandle
  /\ m_workerThread' = NullHandle
  /\ mainQueue' = Tail(mainQueue)
  /\ UNCHANGED << fs, fsOps, storeVars, runs, mainPc, crashed, thrown, overwrites, lastCall, cacheVars >>

\* ------------------------------------------------------------------- user
\* The files the user edits
UserPaths == {PathP}

\* The files the user deletes: that file and the thumbnails the scans wrote
Deletable(files) ==
  { p \in DOMAIN files : p \in UserPaths \/ p.dir \in { ThumbDirOf(root) : root \in Roots } }

\* No scan is under way: every thread has finished and every queued slot ran
AllDone ==
  /\ mainQueue = <<>>
  /\ mainPc.at = "idle"
  /\ \A r \in DOMAIN runs : runs[r].pc = "finished"

\* The user saves new content to a file
UserWrite(path, data) ==
  /\ ~crashed
  /\ fsOps < MaxFsOps
  /\ AllDone
  /\ fs' = WriteFile(fs, path, Bytes(data, 0), Now + 1)
  /\ fsOps' = fsOps + 1
  /\ UNCHANGED << storeVars, scannerVars, overwrites, lastCall, cacheVars >>

\* The user deletes a file
UserDelete(path) ==
  /\ ~crashed
  /\ fsOps < MaxFsOps
  /\ AllDone
  /\ Exists(fs, path)
  /\ fs' = RemoveFile(fs, path)
  /\ fsOps' = fsOps + 1
  /\ UNCHANGED << storeVars, scannerVars, overwrites, lastCall, cacheVars >>

\* ------------------------------------------------- calls to the store API
\* What lastCall records: the last call to the store, its arguments, what it
\* returned and the signals it emitted
NoCall ==
  [ op |-> "none", filePath |-> NoPath, existingPaths |-> <<>>, mediaId |-> 0, tagNames |-> <<>>,
    tagsMatchAll |-> FALSE,
    searchText |-> NoText, limit |-> 0, offset |-> 0, rootDir |-> NoDir,
    was |-> "none", ret |-> 0, records |-> <<>>, totalCount |-> 0, emitted |-> {} ]

\* The status of the row of a path before a call, "none" when there is no row
StatusOf(rows, filePath) ==
  IF \E r \in rows : r.file_path = filePath
  THEN (CHOOSE r \in rows : r.file_path = filePath).status
  ELSE "none"

\* The record full processing builds for a file that decodes
RecordOf(path, rootDir, bytes, mtime) ==
  [ MediaRecord EXCEPT
      !.filePath = path, !.rootDir = rootDir, !.fileName = FileName(path),
      !.sha256 = computeSha256(bytes), !.sizeBytes = SizeOf(bytes),
      !.modifiedTimeUtc = mtime, !.mediaType = typeFromExtension(DotExt(path)) ]

ApiRecords ==
  { RecordOf(PathP, RootA, Bytes(1, 0), 1), RecordOf(PathQ, RootB, Bytes(1, 0), 2) }

ApiPaths == { r.filePath : r \in ApiRecords }

TagX == << "x" >>
TagY == << "y" >>
TagXRaw == << " ", "X" >>
TagBlank == << " " >>

\* Tag lists handed to the tag mutations
TagLists == { <<TagXRaw>>, <<TagX, TagY, TagBlank>> }

\* Tag lists handed to queryMedia
QueryTagLists ==
  { <<>>, <<TagX, TagY>>, <<TagX, TagXRaw>> }

UpsertMedia(record) ==
  /\ (\E r \in media : r.file_path = record.filePath) \/ NextRowId(media) <= MaxMediaId
  /\ media' = upsertMedia(media, record)
  /\ lastCall' = [NoCall EXCEPT !.op = "upsertMedia", !.filePath = record.filePath,
                                !.was = StatusOf(media, record.filePath),
                                !.ret = upsertMediaId(media, record),
                                !.emitted = IF upsertMediaId(media, record) > 0
                                            THEN {"databaseChanged"} ELSE {}]
  /\ UNCHANGED << tags, media_tags, scannerVars, fileVars, cacheVars >>

\* emit databaseChanged() when the DELETE affected a row
DeleteMedia(filePath) ==
  /\ media' = deleteMedia(media, filePath)
  /\ lastCall' = [NoCall EXCEPT !.op = "deleteMedia",
                                !.emitted = IF deleteMedia(media, filePath) # media
                                            THEN {"databaseChanged"} ELSE {}]
  /\ UNCHANGED << tags, media_tags, scannerVars, fileVars, cacheVars >>

\* Database::updateThumbnailPath: the UPDATE and no signal
UpdateThumbnailPath(filePath, thumbnailPath) ==
  /\ media' = updateThumbnailPath(media, filePath, thumbnailPath)
  /\ lastCall' = [NoCall EXCEPT !.op = "updateThumbnailPath", !.filePath = filePath]
  /\ UNCHANGED << tags, media_tags, scannerVars, fileVars, cacheVars >>

\* emit databaseChanged() when the UPDATE affected a row
MarkMissingFilesDeleted(existingPaths, rootDir) ==
  /\ media' = markMissingFilesDeleted(media, existingPaths, rootDir)
  /\ lastCall' = [NoCall EXCEPT !.op = "markMissingFilesDeleted",
                                !.existingPaths = existingPaths, !.rootDir = rootDir,
                                !.ret = markMissingFilesAffected(media, existingPaths, rootDir),
                                !.emitted =
                                  IF markMissingFilesAffected(media, existingPaths, rootDir) > 0
                                  THEN {"databaseChanged"} ELSE {}]
  /\ UNCHANGED << tags, media_tags, scannerVars, fileVars, cacheVars >>

\* A tag mutation may add rows to tags only up to MaxTagId
TagRoom(tagNames) == \A t \in upsertTags(tags, tagNames) : t.id <= MaxTagId

SetMediaTags(mediaId, tagNames) ==
  /\ TagRoom(tagNames)
  /\ tags' = upsertTags(tags, tagNames)
  /\ media_tags' = setMediaTags(tags, media_tags, mediaId, tagNames)
  /\ lastCall' = [NoCall EXCEPT !.op = "setMediaTags", !.mediaId = mediaId,
                                !.tagNames = tagNames, !.emitted = {"tagsChanged"}]
  /\ UNCHANGED << media, scannerVars, fileVars, cacheVars >>

AddMediaTags(mediaId, tagNames) ==
  /\ TagRoom(tagNames)
  /\ tags' = upsertTags(tags, tagNames)
  /\ media_tags' = addMediaTags(tags, media_tags, mediaId, tagNames)
  /\ lastCall' = [NoCall EXCEPT !.op = "addMediaTags", !.mediaId = mediaId,
                                !.tagNames = tagNames, !.emitted = {"tagsChanged"}]
  /\ UNCHANGED << media, scannerVars, fileVars, cacheVars >>

RemoveMediaTags(mediaId, tagNames) ==
  /\ media_tags' = removeMediaTags(tags, media_tags, mediaId, tagNames)
  /\ lastCall' = [NoCall EXCEPT !.op = "removeMediaTags", !.mediaId = mediaId,
                                !.tagNames = tagNames,
                                !.emitted =
                                  IF \E i \in 1..Len(tagNames) : normalizeTag(tagNames[i]) # NoText
                                  THEN {"tagsChanged"} ELSE {}]
  /\ UNCHANGED << media, tags, scannerVars, fileVars, cacheVars >>

RemoveTagGlobally(tagName) ==
  /\ LET out == removeTagGlobally(tags, media_tags, tagName)
     IN /\ tags' = out.tags
        /\ media_tags' = out.media_tags
        /\ lastCall' = [NoCall EXCEPT !.op = "removeTagGlobally",
                                      !.ret = out.affected,
                                      !.emitted = IF out.affected > 0
                                                  THEN {"tagsChanged"} ELSE {}]
  /\ UNCHANGED << media, scannerVars, fileVars, cacheVars >>

\* A call of Database::queryMedia with its default limit, offset and order,
\* no search text and no root
QueryMedia(requiredTags, tagsMatchAll) ==
  /\ LET out == queryMedia(media, tags, media_tags, requiredTags, NoText, 200, 0, NoDir,
                           tagsMatchAll)
     IN lastCall' = [NoCall EXCEPT !.op = "queryMedia", !.tagNames = requiredTags,
                                   !.tagsMatchAll = tagsMatchAll,
                                   !.limit = 200,
                                   !.records = out.records,
                                   !.totalCount = out.totalCount]
  /\ UNCHANGED << storeVars, scannerVars, fileVars, cacheVars >>

\* A call of Database::queryMedia with every argument but the order given
QueryPage(requiredTags, searchText, limit, offset, rootDir, tagsMatchAll) ==
  /\ LET out == queryMedia(media, tags, media_tags, requiredTags, searchText, limit,
                           offset, rootDir, tagsMatchAll)
     IN lastCall' = [NoCall EXCEPT !.op = "queryMedia", !.tagNames = requiredTags,
                                   !.tagsMatchAll = tagsMatchAll,
                                   !.searchText = searchText, !.limit = limit,
                                   !.offset = offset, !.rootDir = rootDir,
                                   !.records = out.records,
                                   !.totalCount = out.totalCount]
  /\ UNCHANGED << storeVars, scannerVars, fileVars, cacheVars >>

\* A root no scan has indexed
RootZ == <<"z">>

\* The records, text filters, roots, limits and offsets of SpecQuery
QueryRecords ==
  { RecordOf(PathP, RootA, Bytes(1, 0), 1), RecordOf(PathQ, RootB, Bytes(1, 0), 1),
    RecordOf(PathV, RootA, Bytes(3, 0), 2) }
QueryTexts == { NoText, << "Q" >> }
QueryRoots == { NoDir, RootA, RootZ }
QueryLimits == { 1, 2 }
QueryOffsets == { 0, 2 }

\* ------------------------------------------------------- thumbnail cache
\* ThumbnailCache(cacheSize): the QCache's maximum number of entries
cacheSize == 2
\* m_threadPool.setMaxThreadCount(qMax(2, idealThreadCount / 2))
maxThreadCount == 2
\* how many tasks the calls may construct, and how many queued invocations
\* may wait for the cache's event loop
MaxTasks == 3
MaxPosted == 2

\* The media ids and target sizes the gallery asks for
CacheIds == 1..3
TargetSizes == {1, 2}
\* The media ids of SpecCache
CancelIds == 1..2

\* The thumbnail files on disk: a JPEG, a file no decoder accepts, and a
\* path with no file
ThumbGood == ThumbPathFor(ThumbDirOf(RootA), computeSha256(Bytes(1, 0)))
ThumbBad == ThumbPathFor(ThumbDirOf(RootA), computeSha256(Bytes(2, 0)))
ThumbGone == ThumbPathFor(ThumbDirOf(RootA), computeSha256(Bytes(3, 0)))
\* The thumbnail path of each media row
ThumbOf(mediaId) == IF mediaId = 2 THEN ThumbBad ELSE ThumbGood
ThumbFiles ==
  WriteFile(WriteFile(<<>>, ThumbGood, ThumbBytes(Bytes(1, 0)), 1), ThumbBad, Bytes(Corrupt, 1), 1)

\* ThumbnailCache::cacheKey: QString("%1_%2").arg(mediaId).arg(targetSize)
cacheKey(mediaId, targetSize) == HexDigit(mediaId) \o << "_" >> \o HexDigit(targetSize)

\* A QPixmap: what was decoded and the size of its canvas; a null QPixmap
NullPixmap == [bytes |-> Bytes(Corrupt, 0), size |-> 0]
Pixmap(bytes, targetSize) == [bytes |-> bytes, size |-> targetSize]

\* QCache::contains
CacheContains(cache, key) == \E i \in 1..Len(cache) : cache[i].key = key

CacheWithout(cache, key) == SelectSeq(cache, LAMBDA e : e.key # key)

CacheEntry(cache, key) == cache[CHOOSE i \in 1..Len(cache) : cache[i].key = key]

CacheObjectKeepsOrder(cache, key) == cache

\* QCache::object: a hit makes the entry the most recently used one
CacheObject(cache, key) == << CacheEntry(cache, key) >> \o CacheWithout(cache, key)

CacheInsertUnbounded(cache, key, pix) ==
  << [key |-> key, pix |-> pix] >> \o CacheWithout(cache, key)

\* QCache::insert with cost 1: the key's old entry goes, the least recently
\* used entries go until there is room, the new entry is the most recent
CacheInsert(cache, key, pix) ==
  LET others == CacheWithout(cache, key)
      kept == SubSeq(others, 1, IF Len(others) < cacheSize THEN Len(others) ELSE cacheSize - 1)
  IN  << [key |-> key, pix |-> pix] >> \o kept

\* A ThumbnailLoadTask and its fields; cancelled notes that the request which
\* constructed it was cancelled while it was pending
Task(n, mediaId, path, targetSize) ==
  [n |-> n, mediaId |-> mediaId, path |-> path, targetSize |-> targetSize, cancelled |-> FALSE]

\* A queued invocation: the lambda of requestThumbnail's cached branch, the
\* lambda of its failure branch, or the lambda a task's run() posts. The
\* last one holds the task's address and the result; reused is the fields of
\* the tasks constructed since that task was deleted.
Posted(kind, mediaId, targetSize, pix) ==
  [kind |-> kind, mediaId |-> mediaId, targetSize |-> targetSize, pix |-> pix, reused |-> {},
   cancelled |-> FALSE]

NoCacheCall ==
  [ op |-> "none", mediaId |-> 0, targetSize |-> 0, path |-> NoPath, was |-> "none",
    started |-> 0, emitted |-> <<>>, mutex |-> "free", thread |-> "none" ]

HoldsMutexButInClear(op) ==
  op \in { "getThumbnail", "requestThumbnail", "cancelPendingRequests", "cancelRequest",
           "onThumbnailLoaded" }

\* QMutexLocker locker(&m_mutex): the operations that touch m_cache and
\* m_pendingRequests only between taking m_mutex and releasing it
HoldsMutex(op) ==
  op \in { "getThumbnail", "requestThumbnail", "cancelPendingRequests", "cancelRequest",
           "clear", "onThumbnailLoaded" }

\* The queued lambdas run on the thread the cache object lives on, the
\* public operations on the thread of their caller
ThreadOf(op) ==
  IF op \in { "onThumbnailLoaded", "thumbnailLoaded", "thumbnailFailed" } THEN "cache"
  ELSE "caller"

CallOf(op) ==
  [NoCacheCall EXCEPT !.mutex = IF HoldsMutex(op) THEN "held" ELSE "free",
                      !.thread = ThreadOf(op)]

Signal(name, mediaId, pix) == [signal |-> name, mediaId |-> mediaId, pix |-> pix]

QueuedTasks == { m_threadPool.queue[i] : i \in 1..Len(m_threadPool.queue) }

\* The tasks whose result has not been handed to onThumbnailLoaded: queued,
\* running, or run with their lambda still posted
AwaitingDelivery ==
  { [mediaId |-> e.mediaId, targetSize |-> e.targetSize] :
      e \in { cacheQueue[i] : i \in { j \in 1..Len(cacheQueue) : cacheQueue[j].kind = "task" } } }

InFlight ==
  { [mediaId |-> t.mediaId, targetSize |-> t.targetSize] : t \in QueuedTasks \cup m_threadPool.running }
    \cup AwaitingDelivery

PoolStartDropsTask(pool, task) == pool

\* QThreadPool::start: a free thread takes the task at once, otherwise it
\* is queued
PoolStart(pool, task) ==
  IF Cardinality(pool.running) < maxThreadCount
  THEN [pool EXCEPT !.running = @ \cup {task}]
  ELSE [pool EXCEPT !.queue = Append(@, task)]

\* The memory of every deleted task whose lambda is still posted may be the
\* memory the new task is constructed in
Reuse(queue, task) ==
  [ i \in 1..Len(queue) |->
      IF queue[i].kind = "task"
      THEN [queue[i] EXCEPT !.reused = @ \cup {<< task.mediaId, task.targetSize >>}]
      ELSE queue[i] ]

\* ThumbnailCache::requestThumbnail
RequestThumbnail(mediaId, thumbnailPath, targetSize) ==
  LET key == cacheKey(mediaId, targetSize)
      call == [CallOf("requestThumbnail") EXCEPT !.op = "requestThumbnail", !.mediaId = mediaId,
                                  !.targetSize = targetSize, !.path = thumbnailPath]
  IN
  /\ ~crashed
  /\ IF CacheContains(m_cache, key)
     THEN /\ Len(cacheQueue) < MaxPosted
          /\ m_cache' = CacheObject(m_cache, key)
          /\ cacheQueue' = Append(cacheQueue, Posted("thumbnailLoaded", mediaId, targetSize,
                                                     CacheEntry(m_cache, key).pix))
          /\ cacheCall' = [call EXCEPT !.was = "cached"]
          /\ UNCHANGED << m_pendingRequests, m_threadPool, tasksMade >>
     ELSE IF mediaId \in m_pendingRequests
     THEN /\ cacheCall' = [call EXCEPT !.was = "pending"]
          /\ UNCHANGED << m_cache, m_pendingRequests, m_threadPool, cacheQueue, tasksMade >>
     ELSE IF thumbnailPath = NoPath \/ ~Exists(fs, thumbnailPath)
     THEN /\ Len(cacheQueue) < MaxPosted
          /\ cacheQueue' = Append(cacheQueue, Posted("thumbnailFailed", mediaId, targetSize,
                                                     NullPixmap))
          /\ cacheCall' = [call EXCEPT !.was = "absent"]
          /\ UNCHANGED << m_cache, m_pendingRequests, m_threadPool, tasksMade >>
     ELSE /\ tasksMade < MaxTasks
          /\ m_pendingRequests' = m_pendingRequests \cup {mediaId}
          /\ tasksMade' = tasksMade + 1
          /\ \E task \in { Task(tasksMade + 1, mediaId, thumbnailPath, targetSize) } :
               /\ m_threadPool' = PoolStart(m_threadPool, task)
               /\ cacheQueue' = Reuse(cacheQueue, task)
          /\ cacheCall' = [call EXCEPT !.was = "new", !.started = 1]
          /\ UNCHANGED m_cache
  /\ UNCHANGED << storeVars, scannerVars, fileVars, lastCall >>

\* ThumbnailCache::getThumbnail: the cached pixmap, which becomes the most
\* recently used entry, or the placeholder
GetThumbnail(mediaId, thumbnailPath, targetSize) ==
  LET key == cacheKey(mediaId, targetSize)
      call == [CallOf("getThumbnail") EXCEPT !.op = "getThumbnail", !.mediaId = mediaId,
                                  !.targetSize = targetSize]
  IN
  /\ ~crashed
  /\ IF CacheContains(m_cache, key)
     THEN /\ m_cache' = CacheObject(m_cache, key)
          /\ cacheCall' = [call EXCEPT !.was = "cached"]
     ELSE /\ m_cache' = m_cache
          /\ cacheCall' = [call EXCEPT !.was = "placeholder"]
  /\ UNCHANGED << m_pendingRequests, m_threadPool, cacheQueue, tasksMade,
                  storeVars, scannerVars, fileVars, lastCall >>

\* ThumbnailCache::clear
Clear ==
  /\ ~crashed
  /\ m_cache' = <<>>
  /\ cacheCall' = [CallOf("clear") EXCEPT !.op = "clear"]
  /\ UNCHANGED << m_pendingRequests, m_threadPool, cacheQueue, tasksMade,
                  storeVars, scannerVars, fileVars, lastCall >>

\* The tasks and posted results of the pending requests of ids, noted as
\* cancelled
NoteCancelled(x, ids) ==
  IF x.mediaId \in ids \cap m_pendingRequests THEN [x EXCEPT !.cancelled = TRUE] ELSE x

NoteCancelledPosted(queue, ids) ==
  [ i \in 1..Len(queue) |->
      IF queue[i].kind = "task" THEN NoteCancelled(queue[i], ids) ELSE queue[i] ]

\* ThumbnailCache::cancelPendingRequests: every marker goes, and
\* QThreadPool::clear removes the runnables no thread has taken yet
CancelPendingRequests ==
  /\ ~crashed
  /\ m_pendingRequests' = {}
  /\ m_threadPool' = [queue |-> <<>>,
                      running |-> { NoteCancelled(t, CacheIds) : t \in m_threadPool.running }]
  /\ cacheQueue' = NoteCancelledPosted(cacheQueue, CacheIds)
  /\ cacheCall' = [CallOf("cancelPendingRequests") EXCEPT !.op = "cancelPendingRequests"]
  /\ UNCHANGED << m_cache, tasksMade, storeVars, scannerVars, fileVars, lastCall >>

\* ThumbnailCache::cancelRequest: the marker of one media id goes
CancelRequest(mediaId) ==
  /\ ~crashed
  /\ m_pendingRequests' = m_pendingRequests \ {mediaId}
  /\ m_threadPool' =
       [queue |-> [ i \in 1..Len(m_threadPool.queue) |->
                      NoteCancelled(m_threadPool.queue[i], {mediaId}) ],
        running |-> { NoteCancelled(t, {mediaId}) : t \in m_threadPool.running }]
  /\ cacheQueue' = NoteCancelledPosted(cacheQueue, {mediaId})
  /\ cacheCall' = [CallOf("cancelRequest") EXCEPT !.op = "cancelRequest", !.mediaId = mediaId]
  /\ UNCHANGED << m_cache, tasksMade, storeVars, scannerVars, fileVars, lastCall >>

\* A pool thread that has finished a task takes the next queued one
PoolNext ==
  /\ ~crashed
  /\ m_threadPool.queue # <<>>
  /\ Cardinality(m_threadPool.running) < maxThreadCount
  /\ m_threadPool' = [queue |-> Tail(m_threadPool.queue),
                      running |-> m_threadPool.running \cup {Head(m_threadPool.queue)}]
  /\ UNCHANGED << m_cache, m_pendingRequests, cacheQueue, tasksMade, cacheCall,
                  storeVars, scannerVars, fileVars, lastCall >>

\* ThumbnailLoadTask::run: decode and scale, post the lambda that captured
\* this and the result; the pool deletes the task when run() returns
TaskRun(task) ==
  /\ ~crashed
  /\ task \in m_threadPool.running
  /\ Len(cacheQueue) < MaxPosted
  /\ \E result \in { IF task.path # NoPath /\ Exists(fs, task.path) /\ Decodable(fs[task.path].bytes)
                     THEN Pixmap(fs[task.path].bytes, task.targetSize)
                     ELSE NullPixmap } :
       cacheQueue' = Append(cacheQueue,
                            [Posted("task", task.mediaId, task.targetSize, result)
                               EXCEPT !.cancelled = task.cancelled])
  /\ m_threadPool' = [m_threadPool EXCEPT !.running = @ \ {task}]
  /\ UNCHANGED << m_cache, m_pendingRequests, tasksMade, cacheCall,
                  storeVars, scannerVars, fileVars, lastCall >>

\* ThumbnailCache::onThumbnailLoaded
OnThumbnailLoaded(mediaId, targetSize, pixmap) ==
  LET call == [CallOf("onThumbnailLoaded") EXCEPT !.op = "onThumbnailLoaded", !.mediaId = mediaId,
                                  !.targetSize = targetSize]
  IN
  IF mediaId \notin m_pendingRequests
  THEN /\ cacheCall' = [call EXCEPT !.was = "cancelled"]
       /\ UNCHANGED << m_cache, m_pendingRequests >>
  ELSE /\ m_pendingRequests' = m_pendingRequests \ {mediaId}
       /\ IF pixmap # NullPixmap
          THEN /\ m_cache' = CacheInsert(m_cache, cacheKey(mediaId, targetSize), pixmap)
               /\ cacheCall' = [call EXCEPT !.was = "pending",
                                  !.emitted = << Signal("thumbnailLoaded", mediaId, pixmap) >>]
          ELSE /\ m_cache' = m_cache
               /\ cacheCall' = [call EXCEPT !.was = "pending",
                                  !.emitted = << Signal("thumbnailFailed", mediaId, pixmap) >>]

\* The cache's thread runs the next queued invocation. The lambda of a task
\* reads m_cache, m_mediaId and m_targetSize through the task's address after
\* the pool has deleted the task: it finds the task's own fields, the fields
\* of a task constructed later in that memory, or the process dies.
Deliver ==
  /\ cacheQueue # <<>>
  /\ ~crashed
  /\ cacheQueue' = Tail(cacheQueue)
  /\ LET e == Head(cacheQueue) IN
     IF e.kind = "task"
     THEN \/ /\ \E fields \in {<< e.mediaId, e.targetSize >>} \cup e.reused :
                  OnThumbnailLoaded(fields[1], fields[2], e.pix)
             /\ UNCHANGED crashed
          \/ /\ crashed' = TRUE
             /\ cacheCall' = [CallOf("onThumbnailLoaded") EXCEPT !.op = "onThumbnailLoaded", !.was = "crashed"]
             /\ UNCHANGED << m_cache, m_pendingRequests >>
     ELSE /\ cacheCall' = [CallOf(e.kind) EXCEPT !.op = e.kind, !.mediaId = e.mediaId,
                             !.emitted = << Signal(e.kind, e.mediaId, e.pix) >>]
          /\ UNCHANGED << m_cache, m_pendingRequests, crashed >>
  /\ UNCHANGED << m_threadPool, tasksMade, storeVars, fileVars, lastCall,
                  m_worker, m_workerThread, runs, mainQueue, mainPc, thrown >>

\* ---------------------------------------------------------- specification
Empty ==
  /\ fsOps = 0
  /\ media = {}
  /\ tags = {}
  /\ media_tags = {}
  /\ m_worker = NullHandle
  /\ m_workerThread = NullHandle
  /\ runs = <<>>
  /\ mainQueue = <<>>
  /\ mainPc = Idle
  /\ crashed = FALSE
  /\ thrown = 0
  /\ overwrites = 0
  /\ lastCall = NoCall
  /\ m_cache = <<>>
  /\ m_pendingRequests = {}
  /\ m_threadPool = [queue |-> <<>>, running |-> {}]
  /\ cacheQueue = <<>>
  /\ tasksMade = 0
  /\ cacheCall = NoCacheCall

\* The scanner's own steps: the queued slots the event loop runs and the
\* steps of the worker threads
ScannerStep ==
  \/ DispatchProgress
  \/ DispatchFinished
  \/ DispatchThreadFinished
  \/ \E r \in DOMAIN runs : ProcessList(r)
  \/ \E r \in DOMAIN runs : ProcessMark(r)
  \/ \E r \in DOMAIN runs : ProcessSnapshot(r)
  \/ \E r \in DOMAIN runs : ProcessLoop(r)
  \/ \E r \in DOMAIN runs : ProcessFile(r, NoText)
  \/ \E r \in DOMAIN runs : ThreadExit(r)

\* Spec: any sequence of scanDirectory() and cancel() calls on one Scanner,
\* at any time, over a library the user leaves alone.
Init ==
  /\ fs = WriteFile(WriteFile(<<>>, PathN, Bytes(5, 0), 1), PathP, Bytes(1, 0), 1)
  /\ Empty

Next ==
  \/ OnScanFolder(RootA)
  \/ Cancel
  \/ WaitReturn
  \/ WaitTimeout
  \/ ScannerStep

Spec == Init /\ [][Next]_vars

\* SpecScan: the user scans, waits for the scan to end, changes files, scans
\* again.
InitScan ==
  /\ fs \in InitialFilesystems
  /\ Empty

Rescan(folder) == AllDone /\ OnScanFolder(folder)

NextScan ==
  \/ \E folder \in Roots : Rescan(folder)
  \/ ScannerStep
  \/ \E r \in DOMAIN runs, what \in ExceptionMessages : ProcessFile(r, what)
  \/ \E path \in UserPaths : UserWrite(path, 2)
  \/ \E path \in Deletable(fs) : UserDelete(path)

SpecScan == InitScan /\ [][NextScan]_vars

\* SpecDb: any sequence of calls to the store's API on an empty store.
InitDb ==
  /\ fs = <<>>
  /\ Empty

NextDb ==
  \/ \E record \in ApiRecords : UpsertMedia(record)
  \/ \E path \in ApiPaths : DeleteMedia(path)
  \/ \E existing \in {<<>>, <<PathP>>}, rootDir \in Roots :
       MarkMissingFilesDeleted(existing, rootDir)
  \/ \E r \in media, names \in TagLists : SetMediaTags(r.id, names)
  \/ \E r \in media, names \in TagLists : AddMediaTags(r.id, names)
  \/ \E r \in media, names \in TagLists : RemoveMediaTags(r.id, names)
  \/ \E name \in {TagXRaw, TagY} : RemoveTagGlobally(name)
  \/ \E names \in QueryTagLists, all \in BOOLEAN : QueryMedia(names, all)

SpecDb == InitDb /\ [][NextDb]_vars

\* SpecNotify: any sequence of the store's mutating operations.
NextNotify ==
  \/ \E record \in ApiRecords : UpsertMedia(record)
  \/ \E path \in ApiPaths : DeleteMedia(path)
  \/ \E path \in ApiPaths :
       UpdateThumbnailPath(path, ThumbPathFor(ThumbDirOf(RootA), computeSha256(Bytes(1, 0))))
  \/ \E rootDir \in Roots : MarkMissingFilesDeleted(<<PathP>>, rootDir)
  \/ \E r \in media, names \in TagLists : SetMediaTags(r.id, names)
  \/ \E r \in media, names \in TagLists : AddMediaTags(r.id, names)
  \/ \E r \in media, names \in TagLists : RemoveMediaTags(r.id, names)
  \/ \E name \in {TagXRaw, TagY} : RemoveTagGlobally(name)

SpecNotify == InitDb /\ [][NextNotify]_vars

\* SpecQuery: rows are upserted, marked deleted and tagged, and the store is
\* queried with every filter, limit and offset.
NextQuery ==
  \/ \E record \in QueryRecords : UpsertMedia(record)
  \/ \E rootDir \in Roots : MarkMissingFilesDeleted(<<PathP>>, rootDir)
  \/ \E r \in media : AddMediaTags(r.id, <<TagXRaw>>)
  \/ \E requiredTags \in { <<>>, <<TagX>> }, searchText \in QueryTexts,
        limit \in QueryLimits, offset \in QueryOffsets, rootDir \in QueryRoots :
       QueryPage(requiredTags, searchText, limit, offset, rootDir, TRUE)

SpecQuery == InitDb /\ [][NextQuery]_vars

\* SpecCoalesce: the gallery asks for thumbnails and clears the cache at any
\* time, and never cancels; the pool's threads and the cache's event loop
\* run when they can.
InitCache ==
  /\ fs = ThumbFiles
  /\ Empty

NextCoalesce ==
  \/ \E mediaId \in CacheIds, targetSize \in TargetSizes :
       \E path \in { ThumbOf(mediaId), ThumbGone } : RequestThumbnail(mediaId, path, targetSize)
  \/ \E mediaId \in CacheIds, targetSize \in TargetSizes :
       GetThumbnail(mediaId, ThumbOf(mediaId), targetSize)
  \/ Clear
  \/ PoolNext
  \/ \E task \in m_threadPool.running : TaskRun(task)
  \/ Deliver

SpecCoalesce == InitCache /\ [][NextCoalesce]_vars

\* SpecCache: the gallery asks for thumbnails, cancels and clears at any
\* time; the pool's threads and the cache's event loop run when they can.
NextCache ==
  \/ \E mediaId \in CancelIds :
       \E path \in { ThumbOf(mediaId), ThumbGone } : RequestThumbnail(mediaId, path, 1)
  \/ Clear
  \/ CancelPendingRequests
  \/ \E mediaId \in CancelIds : CancelRequest(mediaId)
  \/ PoolNext
  \/ \E task \in m_threadPool.running : TaskRun(task)
  \/ Deliver

SpecCache == InitCache /\ [][NextCache]_vars

\* SpecLru: thumbnails of two media rows in two sizes are asked for, looked
\* up, cancelled and cleared at any time.
LruIds == {1, 3}

NextLru ==
  \/ \E mediaId \in LruIds, targetSize \in TargetSizes :
       RequestThumbnail(mediaId, ThumbOf(mediaId), targetSize)
  \/ \E mediaId \in LruIds, targetSize \in TargetSizes :
       GetThumbnail(mediaId, ThumbOf(mediaId), targetSize)
  \/ Clear
  \/ CancelPendingRequests
  \/ \E mediaId \in LruIds : CancelRequest(mediaId)
  \/ PoolNext
  \/ \E task \in m_threadPool.running : TaskRun(task)
  \/ Deliver

SpecLru == InitCache /\ [][NextLru]_vars

\* SpecMark: rows of two roots are upserted, tagged and marked missing, with
\* every list of observed paths and every spelling of the root.
RootADot == << "a", "." >>

NextMark ==
  \/ \E record \in ApiRecords \cup { RecordOf(PathV, RootA, Bytes(3, 0), 1) } : UpsertMedia(record)
  \/ \E existingPaths \in { <<>>, <<PathP>>, <<PathV, PathQ>> },
        rootDir \in { RootA, RootB, RootADot, RootZ } :
       MarkMissingFilesDeleted(existingPaths, rootDir)
  \/ \E r \in media : AddMediaTags(r.id, <<TagXRaw>>)

SpecMark == InitDb /\ [][NextMark]_vars

\* SpecRescan: SpecScan with cancel() at any time.
NextRescan ==
  \/ NextScan
  \/ Cancel
  \/ WaitReturn
  \/ WaitTimeout

SpecRescan == InitScan /\ [][NextRescan]_vars

\* SpecAnswer: one media row's thumbnail is asked for in two sizes and its
\* request cancelled at any time. A pool thread that is free takes the next
\* queued task, a running task returns (it can post its result whenever the
\* event queue has room, so it does once the queue has room again and
\* again), and the cache's event loop runs the invocations posted to it.
NextAnswer ==
  \/ \E targetSize \in TargetSizes : RequestThumbnail(1, ThumbOf(1), targetSize)
  \/ CancelRequest(1)
  \/ PoolNext
  \/ \E task \in m_threadPool.running : TaskRun(task)
  \/ Deliver

SpecAnswer ==
  /\ InitCache
  /\ [][NextAnswer]_vars
  /\ WF_vars(PoolNext)
  /\ SF_vars(\E task \in m_threadPool.running : TaskRun(task))
  /\ WF_vars(Deliver)

\* SpecFair: Spec with the scheduling the platform gives. A worker thread that
\* can take a step takes it, a wait(5000) ends, and the main thread's event
\* loop delivers a posted event whenever its handlers keep returning to it.
\* ProcessFile(r, NoText) as the run's own fields show it: the body ends and
\* the loop head is next
FileDone(r) ==
  /\ ~crashed
  /\ runs[r].pc = "file"
  /\ \E counted \in { <<>>, <<"addedOrUpdated">>, <<"errors">> } :
       runs' = [runs EXCEPT
                  ![r].pc = "loop", ![r].idx = @ + 1,
                  ![r].result = Bump(IF counted = <<>> THEN @ ELSE Bump(@, counted[1]),
                                     "scanned")]

WorkerStep(r) ==
  /\ r \in RunIds
  /\ \/ ProcessList(r) \/ ProcessMark(r) \/ ProcessSnapshot(r)
     \/ ProcessLoop(r) \/ FileDone(r) \/ ThreadExit(r)

Dispatch == DispatchProgress \/ DispatchFinished \/ DispatchThreadFinished

SpecFair ==
  /\ Spec
  /\ \A r \in 1..MaxRuns : WF_runs(WorkerStep(r))
  /\ WF_vars(WaitReturn \/ WaitTimeout)
  /\ SF_vars(Dispatch)

\* ------------------------------------------------------------------ claims
\* C1: at most one ScannerWorker::process() run is executing at any time.
C1_OneRunExecuting == Cardinality({ r \in RunIds : InProcess(r) }) <= 1

\* C2: every run that was started eventually reports its summary to the
\* caller, it reports it once only, and none of its progress events reaches
\* the caller after the summary.
C2_OneSummary ==
  /\ [](\A r \in RunIds : runs[r].scanFinished <= 1 /\ ~runs[r].lateProgress)
  /\ \A r \in 1..MaxRuns : [](r \in RunIds => <>(r \in RunIds /\ runs[r].scanFinished = 1))

\* C3: once a run's flag is set the flag stays set, the run finishes at most
\* the file it is on and enters no further file, and its leaving the loop and
\* its thread's exit leave every row of the store as it is.
C3_CooperativeCancel ==
  [][\A r \in RunIds :
       runs[r].m_cancelled =>
         /\ runs'[r].m_cancelled
         /\ runs[r].pc # "file" => runs'[r].pc # "file" /\ runs'[r].idx = runs[r].idx
         /\ runs[r].pc = "file" => runs'[r].idx <= runs[r].idx + 1
         /\ runs[r].pc \in {"loop", "exec"} /\ runs'[r].pc # runs[r].pc
              => media' = media]_vars

\* A cancelled run that stopped after the first of its two files, whose row
\* is in the store
C3_Witness ==
  \E r \in RunIds :
    /\ runs[r].m_cancelled
    /\ runs[r].pc = "finished"
    /\ runs[r].idx = 1
    /\ runs[r].total = 2
    /\ \E row \in media : row.file_path = runs[r].files[1] /\ row.status = "active"

\* C4: a second scan of the same root, with no file changed by the user and
\* no exception in either run, leaves the store as the first scan left it and
\* reports addedOrUpdated = 0.
C4_ScanIdempotent ==
  [][( /\ Len(runs) = 2 /\ Len(runs') = 2
       /\ runs[1].m_rootDir = runs[2].m_rootDir
       /\ fsOps = 0
       /\ thrown' = 0 )
       => /\ media' = media
          /\ runs'[2].result.addedOrUpdated = 0
          /\ runs'[2].summary.addedOrUpdated = 0]_vars

\* The filters and pages queried of the store the scans build
ScanQueries ==
  { [ text |-> NoText, rootDir |-> NoDir, limit |-> 200, offset |-> 0 ],
    [ text |-> << "p" >>, rootDir |-> RootA, limit |-> 1, offset |-> 0 ],
    [ text |-> << "Q" >>, rootDir |-> NoDir, limit |-> 200, offset |-> 0 ],
    [ text |-> NoText, rootDir |-> RootB, limit |-> 1, offset |-> 1 ] }

\* C5: a scan of root R marks deleted, and keeps, every active row of R whose
\* path its enumeration lacks; no step removes a row; after every step that
\* changes the table no query, whatever its filter and page, returns a row
\* marked deleted; and a row marked deleted becomes active again only by the
\* upsert of its path.
C5_SoftDelete ==
  [][/\ \A row \in media :
          \E kept \in media' : kept.id = row.id /\ kept.file_path = row.file_path
     /\ \A r \in RunIds :
          runs[r].pc = "mark" /\ runs'[r].pc = "snapshot" =>
            \A row \in media :
              ( /\ row.status = "active"
                /\ row.root_dir = runs[r].m_rootDir
                /\ row.file_path \notin SeqToSet(runs[r].files) )
              => \E kept \in media' : kept.id = row.id /\ kept.status = "deleted"
     /\ media' # media =>
          \A q \in ScanQueries :
            \A row \in SeqToSet(queryMedia(media', tags', media_tags', <<>>, q.text,
                                           q.limit, q.offset, q.rootDir, TRUE).records) :
              row \in media' /\ row.status # "deleted"
     /\ \A row \in media :
          row.status = "deleted" =>
            \A kept \in media' :
              kept.id = row.id /\ kept.status = "active" =>
                \E r \in RunIds :
                  /\ runs[r].pc = "file" /\ runs'[r].pc = "loop"
                  /\ runs[r].files[runs[r].idx + 1] = row.file_path]_vars

\* A finished scan of the root of a row whose file is gone has left the row
\* marked deleted
C5_Witness ==
  /\ AllDone
  /\ \E row \in media :
       /\ row.status = "deleted"
       /\ ~Exists(fs, row.file_path)
       /\ \E r \in RunIds : r > 1 /\ runs[r].m_rootDir = row.root_dir

\* C6: no two rows share a file path, and upserting a path that has a row,
\* active or deleted, keeps the row's id, makes the row active and returns
\* that id.
C6_UpsertKeyedByPath ==
  [][/\ \A a, b \in media' : a.file_path = b.file_path => a = b
     /\ \A record \in ApiRecords :
          UpsertMedia(record) =>
            \A row \in media :
              row.file_path = record.filePath =>
                /\ lastCall'.ret = row.id
                /\ \E kept \in media' :
                     /\ kept.id = row.id
                     /\ kept.file_path = row.file_path
                     /\ kept.status = "active"]_vars

\* An upsert has just made a deleted row active again under the id it had
C6_Witness ==
  /\ lastCall.op = "upsertMedia"
  /\ lastCall.was = "deleted"
  /\ \E row \in media :
       /\ row.file_path = lastCall.filePath
       /\ row.id = lastCall.ret
       /\ row.status = "active"

\* C7: when the body raises an exception for a file, the run goes on to the
\* loop head with the next index, the file's row carries the kind of its
\* extension and the exception's non-empty message, errors grows by one, and
\* a run leaves the loop only with every file of its enumeration scanned.
C7_ErrorIsolation ==
  [][\A r \in RunIds :
       /\ runs[r].pc = "file" /\ runs'[r] # runs[r] /\ thrown' = thrown + 1 =>
            LET path == runs[r].files[runs[r].idx + 1]
            IN /\ runs'[r].pc = "loop"
               /\ runs'[r].idx = runs[r].idx + 1
               /\ runs'[r].result.errors = runs[r].result.errors + 1
               /\ \E row \in media' :
                    /\ row.file_path = path
                    /\ row.media_type = typeFromExtension(DotExt(path))
                    /\ row.error \in ExceptionMessages
                    /\ row.error # NoText
       /\ runs'[r].pc = "exec" =>
            /\ runs'[r].idx = runs'[r].total
            /\ runs'[r].result.scanned = runs'[r].total]_vars

\* A finished run whose first file raised an exception and whose second file
\* was processed all the same
C7_Witness ==
  \E r \in RunIds :
    /\ runs[r].pc = "finished"
    /\ runs[r].total = 2
    /\ runs[r].summary = [scanned |-> 2, addedOrUpdated |-> 1, errors |-> 1]
    /\ \E row \in media : row.file_path = runs[r].files[1] /\ row.error # NoText
    /\ \E row \in media : row.file_path = runs[r].files[2] /\ row.sha256 # NoText

\* The media files of a run's enumeration whose content does not decode
Undecodable(r) ==
  { path \in SeqToSet(runs[r].files) :
      /\ typeFromExtension(DotExt(path)) \in {"image", "video"}
      /\ ~Decodable(fs[path].bytes) }

\* C8: after the first scan of a library (no exception raised), every image
\* or video file that does not decode has a row with the kind of its
\* extension, a non-empty error and no hash, dimensions or thumbnail, and the
\* summary counts those files in errors and the others in addedOrUpdated.
C8_CorruptFileIsError ==
  ( /\ 1 \in RunIds
    /\ runs[1].scanFinished = 1
    /\ Len(runs) = 1
    /\ thrown = 0 /\ fsOps = 0 )
  => /\ \A path \in Undecodable(1) :
          \E row \in media :
            /\ row.file_path = path
            /\ row.media_type = typeFromExtension(DotExt(path))
            /\ row.error # NoText
            /\ row.sha256 = NoText
            /\ row.width = NoInt /\ row.height = NoInt
            /\ row.thumbnail_path = NoPath
     /\ runs[1].summary =
          [ scanned |-> runs[1].total,
            addedOrUpdated |-> runs[1].total - Cardinality(Undecodable(1)),
            errors |-> Cardinality(Undecodable(1)) ]

\* The row describes the file as it is on disk now
RowIsCurrent(row) ==
  /\ Exists(fs, row.file_path)
  /\ row.error = NoText
  /\ row.size_bytes = SizeOf(fs[row.file_path].bytes)
  /\ row.modified_time_utc = fs[row.file_path].mtime

\* C9: two rows of distinct files with identical bytes carry the same hash;
\* a thumbnail path is <hash>.jpg, so within one thumbnails directory the two
\* paths are the same; and while every scan uses the same thumbnails
\* directory no thumbnail is encoded while its file exists.
C9_ContentAddressing ==
  /\ (\A r \in RunIds : runs[r].m_thumbnailsDir = runs[1].m_thumbnailsDir)
       => overwrites = 0
  /\ \A a, b \in media :
       ( /\ a.file_path # b.file_path
         /\ RowIsCurrent(a) /\ RowIsCurrent(b)
         /\ fs[a.file_path].bytes = fs[b.file_path].bytes )
       => /\ a.sha256 = b.sha256
          /\ a.sha256 # NoText
          /\ \A x \in {a, b} :
               x.thumbnail_path # NoPath =>
                 x.thumbnail_path = FilePath(x.thumbnail_path.dir, x.sha256, jpg)
          /\ ( /\ a.thumbnail_path # NoPath /\ b.thumbnail_path # NoPath
               /\ a.thumbnail_path.dir = b.thumbnail_path.dir )
             => a.thumbnail_path = b.thumbnail_path

\* Two files with identical bytes were scanned into one thumbnails directory:
\* one thumbnail file, named by both rows
C9_Witness ==
  \E a, b \in media :
    /\ a.file_path # b.file_path
    /\ RowIsCurrent(a) /\ RowIsCurrent(b)
    /\ fs[a.file_path].bytes = fs[b.file_path].bytes
    /\ a.thumbnail_path # NoPath
    /\ a.thumbnail_path = b.thumbnail_path
    /\ Exists(fs, a.thumbnail_path)

\* The active media associated with every tag of the list, each name
\* normalized
ActiveWithEveryTag(requiredTags) ==
  { row.id : row \in
      { row \in media :
          /\ row.status = "active"
          /\ \A i \in 1..Len(requiredTags) :
               \E t \in tags, link \in media_tags :
                 /\ t.name = normalizeTag(requiredTags[i])
                 /\ link.tag_id = t.id
                 /\ link.media_id = row.id } }

\* C10: queryMedia with a list of tags and matchAll = true returns exactly the
\* active media associated with every tag of the list.
C10_TagAndQuery ==
  ( /\ lastCall.op = "queryMedia"
    /\ lastCall.tagsMatchAll
    /\ lastCall.tagNames # <<>> )
  => { row.id : row \in SeqToSet(lastCall.records) } = ActiveWithEveryTag(lastCall.tagNames)

\* The active media associated with at least one tag of the list, each name
\* normalized
ActiveWithSomeTag(requiredTags) ==
  { row.id : row \in
      { row \in media :
          /\ row.status = "active"
          /\ \E i \in 1..Len(requiredTags) :
               \E t \in tags, link \in media_tags :
                 /\ t.name = normalizeTag(requiredTags[i])
                 /\ link.tag_id = t.id
                 /\ link.media_id = row.id } }

\* C11: queryMedia with a non-empty list of tags and matchAll = false returns
\* exactly the active media associated with at least one tag of the list.
C11_TagOrQuery ==
  ( /\ lastCall.op = "queryMedia"
    /\ ~lastCall.tagsMatchAll
    /\ lastCall.tagNames # <<>> )
  => { row.id : row \in SeqToSet(lastCall.records) } = ActiveWithSomeTag(lastCall.tagNames)

\* An OR query for two tags has returned a media that carries one of them only
C11_Witness ==
  /\ lastCall.op = "queryMedia"
  /\ ~lastCall.tagsMatchAll
  /\ Len(lastCall.tagNames) = 2
  /\ \E row \in SeqToSet(lastCall.records) :
       Cardinality(getMediaTags(tags, media_tags, row.id)) = 1

\* The row satisfies the predicate of the recorded query: status, root, text
\* and tags
Satisfies(row, call) ==
  /\ row.status = "active"
  /\ call.rootDir # NoDir => row.root_dir = call.rootDir
  /\ call.searchText # NoText => Like(row.file_name, call.searchText)
  /\ call.tagNames # <<>> =>
       row.id \in (IF call.tagsMatchAll THEN ActiveWithEveryTag(call.tagNames)
                   ELSE ActiveWithSomeTag(call.tagNames))

\* The largest number of records a page at that offset can hold
PageRoom(limit, offset, totalCount) ==
  LET left == IF totalCount > offset THEN totalCount - offset ELSE 0
  IN IF limit < left THEN limit ELSE left

\* C12: the totalCount of a query is the number of rows of the whole store
\* that satisfy its predicate, it is the same for every limit and offset, and
\* the page holds at most min(limit, totalCount - offset) records (none when
\* the offset is past the total).
C12_TotalCount ==
  lastCall.op = "queryMedia" =>
    /\ lastCall.totalCount = Cardinality({ row \in media : Satisfies(row, lastCall) })
    /\ \A limit \in QueryLimits, offset \in QueryOffsets :
         queryMedia(media, tags, media_tags, lastCall.tagNames, lastCall.searchText,
                    limit, offset, lastCall.rootDir, lastCall.tagsMatchAll).totalCount
           = lastCall.totalCount
    /\ Len(lastCall.records) <= PageRoom(lastCall.limit, lastCall.offset, lastCall.totalCount)

\* A query scoped to a root returned a page of one record and a total of two
C12_Witness ==
  /\ lastCall.op = "queryMedia"
  /\ lastCall.rootDir = RootA
  /\ lastCall.limit = 1
  /\ Len(lastCall.records) = 1
  /\ lastCall.totalCount = 2

\* The page at offset k * limit of the recorded query, asked of the store as
\* it is
PageAt(call, k) ==
  queryMedia(media, tags, media_tags, call.tagNames, call.searchText, call.limit,
             k * call.limit, call.rootDir, call.tagsMatchAll).records

\* C13: after a query at offset 0 with limit L, and with the store unchanged,
\* the pages at offsets 0, L, 2L, ... hold every matching row exactly once and
\* nothing else, most recently modified first and, among rows modified at the
\* same time, larger id first.
C13_StablePagination ==
  ( lastCall.op = "queryMedia" /\ lastCall.offset = 0 ) =>
    LET pages == 0..(lastCall.totalCount \div lastCall.limit)
        slots == { <<k, i>> \in pages \X (1..lastCall.limit) : i <= Len(PageAt(lastCall, k)) }
        at(slot) == PageAt(lastCall, slot[1])[slot[2]]
    IN /\ PageAt(lastCall, 0) = lastCall.records
       /\ \A row \in { row \in media : Satisfies(row, lastCall) } :
            Cardinality({ slot \in slots : at(slot) = row }) = 1
       /\ \A slot \in slots : at(slot) \in media /\ Satisfies(at(slot), lastCall)
       /\ \A a, b \in slots :
            ( a[1] < b[1] \/ (a[1] = b[1] /\ a[2] < b[2]) ) =>
              \/ at(a).modified_time_utc > at(b).modified_time_utc
              \/ /\ at(a).modified_time_utc = at(b).modified_time_utc
                 /\ at(a).id > at(b).id

\* A query with limit 1 matched two rows modified at the same time: they come
\* on two pages
C13_Witness ==
  /\ lastCall.op = "queryMedia"
  /\ lastCall.offset = 0
  /\ lastCall.limit = 1
  /\ lastCall.totalCount = 2
  /\ \E a, b \in media :
       /\ a # b
       /\ Satisfies(a, lastCall) /\ Satisfies(b, lastCall)
       /\ a.modified_time_utc = b.modified_time_utc
       /\ PageAt(lastCall, 0) = << IF a.id > b.id THEN a ELSE b >>
       /\ PageAt(lastCall, 1) = << IF a.id > b.id THEN b ELSE a >>

\* The active rows the recorded query's root and text admit, whatever their tags
UntaggedUniverse(call) ==
  { row \in media :
      /\ row.status = "active"
      /\ call.rootDir # NoDir => row.root_dir = call.rootDir
      /\ call.searchText # NoText => Like(row.file_name, call.searchText) }

\* C14: a query with an empty tag list counts every active row its root and
\* text admit, tagged or not, and returns only such rows; a query scoped to a
\* root no row was indexed under returns no record and totalCount 0.
C14_GracefulQuery ==
  lastCall.op = "queryMedia" =>
    /\ lastCall.tagNames = <<>> =>
         /\ lastCall.totalCount = Cardinality(UntaggedUniverse(lastCall))
         /\ SeqToSet(lastCall.records) \subseteq UntaggedUniverse(lastCall)
         /\ Len(lastCall.records) =
              PageRoom(lastCall.limit, lastCall.offset, lastCall.totalCount)
    /\ ( lastCall.rootDir # NoDir /\ \A row \in media : row.root_dir # lastCall.rootDir ) =>
         /\ lastCall.records = <<>>
         /\ lastCall.totalCount = 0

\* A query with an empty tag list returned a tagged and an untagged row
C14_Witness ==
  /\ lastCall.op = "queryMedia"
  /\ lastCall.tagNames = <<>>
  /\ Len(lastCall.records) = 2
  /\ \E a, b \in SeqToSet(lastCall.records) :
       /\ getMediaTags(tags, media_tags, a.id) # {}
       /\ getMediaTags(tags, media_tags, b.id) = {}

\* C15: every tag that allTags() lists has at least one association.
C15_TagRefCount ==
  \A name \in allTags(tags) :
    \E t \in tags, link \in media_tags : t.name = name /\ link.tag_id = t.id

\* C16: every stored tag name is non-empty, trimmed and lowercase, no two tag
\* rows share a name, and every association a step creates is with a tag row,
\* so a name that normalizes to empty gives neither a row nor an association.
C16_CanonicalTagNames ==
  [][/\ \A t \in tags' : t.name # NoText /\ t.name = toLower(trimmed(t.name))
     /\ \A a, b \in tags' : a.name = b.name => a = b
     /\ \A link \in media_tags' \ media_tags : \E t \in tags' : t.id = link.tag_id]_vars

\* Two media share the one row of tag x, and the list with a blank name has
\* added y and nothing else
C16_Witness ==
  /\ { t.name : t \in tags } = { TagX, TagY }
  /\ Cardinality(tags) = 2
  /\ \E a, b \in media :
       /\ a # b
       /\ TagX \in getMediaTags(tags, media_tags, a.id)
       /\ getMediaTags(tags, media_tags, b.id) = { TagX, TagY }

\* The names of a list, trimmed and in lower case, the empty ones left out
Norm(tagNames) ==
  { toLower(trimmed(tagNames[i])) : i \in 1..Len(tagNames) } \ {NoText}

\* C17: setMediaTags(m, T) leaves m with exactly Norm(T), addMediaTags(m, T)
\* with its old tags and Norm(T), removeMediaTags(m, T) with its old tags
\* less Norm(T); the tags of every other media stay as they are.
C17_TagSetAlgebra ==
  [][lastCall'.op \in {"setMediaTags", "addMediaTags", "removeMediaTags"} =>
       LET m == lastCall'.mediaId
           T == Norm(lastCall'.tagNames)
           old == getMediaTags(tags, media_tags, m)
           new == getMediaTags(tags', media_tags', m)
       IN /\ lastCall'.op = "setMediaTags" => new = T
          /\ lastCall'.op = "addMediaTags" => new = old \cup T
          /\ lastCall'.op = "removeMediaTags" => new = old \ T
          /\ \A other \in (1..MaxMediaId) \ {m} :
               getMediaTags(tags', media_tags', other)
                 = getMediaTags(tags, media_tags, other)]_vars

\* removeMediaTags has taken x from a media that had x and y, and another
\* media still has x
C17_Witness ==
  /\ lastCall.op = "removeMediaTags"
  /\ lastCall.tagNames = <<TagXRaw>>
  /\ getMediaTags(tags, media_tags, lastCall.mediaId) = {TagY}
  /\ \E row \in media :
       /\ row.id # lastCall.mediaId
       /\ TagX \in getMediaTags(tags, media_tags, row.id)

\* C18: every association is between a media row and a tag row that exist.
C18_AssociationIntegrity ==
  \A link \in media_tags :
    /\ \E row \in media : row.id = link.media_id
    /\ \E t \in tags : t.id = link.tag_id

\* C19: every call that changes a row of media, tags or media_tags emits
\* databaseChanged or tagsChanged.
C19_NotifyOnMutation ==
  [][storeVars' # storeVars => lastCall'.emitted # {}]_vars

\* C20: cache coalescing. A requestThumbnail call for an (id, size) whose
\* earlier request has a task that is queued, running or awaiting delivery
\* constructs no second task: a task is constructed only when no task with
\* the same media id and target size is in flight.
C20_CacheCoalescing ==
  [][tasksMade' # tasksMade =>
       [mediaId |-> cacheCall'.mediaId, targetSize |-> cacheCall'.targetSize] \notin InFlight]_vars

\* How many decode tasks of a media id are queued, running or awaiting
\* delivery
TasksIn(pool, posted, mediaId) ==
  Cardinality({ i \in 1..Len(pool.queue) : pool.queue[i].mediaId = mediaId })
  + Cardinality({ t \in pool.running : t.mediaId = mediaId })
  + Cardinality({ i \in 1..Len(posted) : posted[i].kind = "task" /\ posted[i].mediaId = mediaId })

TasksInFlight(mediaId) == TasksIn(m_threadPool, cacheQueue, mediaId)

\* C21: for any interleaving of requests, cancels, clears and deliveries, at
\* most one decode task (queued, running or awaiting delivery) exists for a
\* media id at any time.
C21_OneTaskPerId == \A mediaId \in CacheIds : TasksInFlight(mediaId) <= 1

\* C22: when a pending request is cancelled before its result is delivered,
\* the result of its task is dropped on delivery: the cache stays as it is
\* and neither thumbnailLoaded nor thumbnailFailed is emitted for it.
C22_CancelledIsDropped ==
  [][(Len(cacheQueue') < Len(cacheQueue)
        /\ Head(cacheQueue).kind = "task" /\ Head(cacheQueue).cancelled)
       => (m_cache' = m_cache /\ cacheCall'.emitted = <<>>)]_vars

\* C23: after cancelRequest(id) the id is not pending and no task of the id
\* is left in the pool's queue; after cancelPendingRequests() no id is
\* pending and the pool's queue is empty. (Both return while tasks run.)
C23_CancelPurges ==
  /\ cacheCall.op = "cancelRequest" =>
       /\ cacheCall.mediaId \notin m_pendingRequests
       /\ \A t \in QueuedTasks : t.mediaId # cacheCall.mediaId
  /\ cacheCall.op = "cancelPendingRequests" =>
       /\ m_pendingRequests = {}
       /\ m_threadPool.queue = <<>>

\* C24: bounded memory. In every reachable state the cache holds at most
\* cacheSize entries, one per key.
C24_BoundedMemory ==
  /\ Len(m_cache) <= cacheSize
  /\ \A i, j \in 1..Len(m_cache) : m_cache[i].key = m_cache[j].key => i = j

C24_Witness ==
  /\ Len(m_cache) = cacheSize
  /\ cacheCall.op = "onThumbnailLoaded"
  /\ cacheCall.emitted # <<>>
  /\ tasksMade > cacheSize

\* The entries in the order of their last access, latest first, after key
\* was accessed
AccessedFirst(cache, key) ==
  SelectSeq(cache, LAMBDA e : e.key = key) \o SelectSeq(cache, LAMBDA e : e.key # key)

\* C25: LRU eviction. An access (an insertion by a delivery, a hit by
\* getThumbnail or by requestThumbnail) makes the entry the most recently
\* accessed one and keeps the order of the others; a delivery that inserts a
\* new key into a full cache evicts exactly the least recently accessed
\* entry; nothing else but clear removes an entry.
C25_LruEviction ==
  [][LET key == cacheKey(cacheCall'.mediaId, cacheCall'.targetSize) IN
     IF cacheCall'.was = "cached"
     THEN m_cache' = AccessedFirst(m_cache, key)
     ELSE IF cacheCall'.op = "onThumbnailLoaded" /\ cacheCall'.emitted # <<>>
               /\ cacheCall'.emitted[1].signal = "thumbnailLoaded"
     THEN LET others == SelectSeq(m_cache, LAMBDA e : e.key # key) IN
          /\ Head(m_cache').key = key
          /\ IsPrefix(Tail(m_cache'), others)
          /\ Len(m_cache') = IF Len(others) < cacheSize THEN Len(others) + 1 ELSE cacheSize
     ELSE m_cache' = m_cache \/ cacheCall'.op = "clear"]_vars

\* A delivery has just inserted a new key into a cache that stayed full
\* after two of its entries were hit
C25_Witness ==
  /\ Len(m_cache) = cacheSize
  /\ cacheCall.op = "onThumbnailLoaded"
  /\ cacheCall.emitted # <<>>
  /\ Head(m_cache).key = cacheKey(cacheCall.mediaId, cacheCall.targetSize)
  /\ tasksMade = MaxTasks
  /\ m_pendingRequests = {}

\* A step of requestThumbnail that did something: it left its record of the
\* call, or posted one more queued signal
IsRequestStep ==
  /\ cacheCall'.op = "requestThumbnail"
  /\ \/ cacheCall' # cacheCall
     \/ /\ Len(cacheQueue') = Len(cacheQueue) + 1
        /\ cacheQueue'[Len(cacheQueue')].kind # "task"

\* C26: requestThumbnail(id, path, size) marks id pending and starts one
\* decode task exactly when (id, size) is not cached, id is not pending and
\* the thumbnail file exists. Otherwise the pending set and the pool stay as
\* they are: a cached entry is posted for a later thumbnailLoaded, a pending
\* id posts nothing, and a missing file (id neither cached nor pending) posts
\* a later thumbnailFailed. The call itself emits nothing.
C26_RequestBranches ==
  [][IsRequestStep =>
     LET mediaId == cacheCall'.mediaId
         key == cacheKey(mediaId, cacheCall'.targetSize)
         hits == { i \in 1..Len(m_cache) : m_cache[i].key = key }
         pending == mediaId \in m_pendingRequests
         exists == cacheCall'.path # NoPath /\ cacheCall'.path \in DOMAIN fs
         last == cacheQueue'[Len(cacheQueue')]
     IN
     /\ cacheCall'.emitted = <<>>
     /\ IF hits = {} /\ ~pending /\ exists
        THEN /\ m_pendingRequests' = m_pendingRequests \cup {mediaId}
             /\ tasksMade' = tasksMade + 1
             /\ TasksIn(m_threadPool', cacheQueue', mediaId) = TasksInFlight(mediaId) + 1
             /\ Len(cacheQueue') = Len(cacheQueue)
        ELSE /\ m_pendingRequests' = m_pendingRequests
             /\ m_threadPool' = m_threadPool
             /\ tasksMade' = tasksMade
     /\ hits # {} =>
          /\ Len(cacheQueue') = Len(cacheQueue) + 1
          /\ last.kind = "thumbnailLoaded" /\ last.mediaId = mediaId
          /\ \A i \in hits : last.pix = m_cache[i].pix
     /\ (hits = {} /\ pending) => cacheQueue' = cacheQueue
     /\ (hits = {} /\ ~pending /\ ~exists) =>
          /\ Len(cacheQueue') = Len(cacheQueue) + 1
          /\ last.kind = "thumbnailFailed" /\ last.mediaId = mediaId]_vars

\* requestThumbnail has just found the entry cached, and earlier calls took
\* the other branches
C26_Witness ==
  /\ cacheCall.op = "requestThumbnail"
  /\ cacheCall.was = "cached"
  /\ tasksMade >= 2
  /\ cacheQueue # <<>>

\* A step of a pool thread: a task posts its result, or a thread takes the
\* next task from the pool's queue
IsPoolThreadStep ==
  \/ /\ Len(cacheQueue') = Len(cacheQueue) + 1
     /\ cacheQueue'[Len(cacheQueue')].kind = "task"
  \/ /\ m_threadPool.queue # <<>>
     /\ m_threadPool'.running = m_threadPool.running \cup {Head(m_threadPool.queue)}
     /\ m_threadPool'.running # m_threadPool.running

\* C27: single coordination point. Every change of m_cache and of
\* m_pendingRequests is made by an operation that holds m_mutex, never by a
\* step of a pool thread; the result a task posts is handed to
\* onThumbnailLoaded on the cache's own thread.
C27_SingleCoordinationPoint ==
  [][/\ (m_cache' # m_cache \/ m_pendingRequests' # m_pendingRequests) =>
          (~IsPoolThreadStep /\ cacheCall'.mutex = "held" /\ cacheCall'.thread # "none")
     /\ (Len(cacheQueue') < Len(cacheQueue) /\ Head(cacheQueue).kind = "task") =>
          (cacheCall'.op = "onThumbnailLoaded" /\ cacheCall'.thread = "cache")]_vars

\* A delivered result has changed the pending set and the cache while other
\* tasks were running
C27_Witness ==
  /\ cacheCall.op = "onThumbnailLoaded"
  /\ cacheCall.was = "pending"
  /\ m_cache # <<>>
  /\ m_threadPool.running # {}

\* C28: markMissingFilesDeleted(existingPaths, rootDir) sets status to
\* deleted on exactly the active rows of the root whose path is not among
\* existingPaths (all active rows of the root when the list is empty),
\* returns how many rows it changed, and leaves every other row, every other
\* column and the tag tables as they were.
C28_MarkMissing ==
  [][lastCall'.op = "markMissingFilesDeleted" =>
     LET observed == { lastCall'.existingPaths[i] : i \in 1..Len(lastCall'.existingPaths) }
         root == absolutePath(lastCall'.rootDir)
         hit == { r \in media : r.status = "active" /\ r.root_dir = root
                                /\ r.file_path \notin observed }
     IN /\ media' = (media \ hit) \cup { [r EXCEPT !.status = "deleted"] : r \in hit }
        /\ lastCall'.ret = Cardinality(hit)
        /\ tags' = tags /\ media_tags' = media_tags]_vars

\* A call with a non-empty list and a root spelled with "." has just marked
\* one row of its root and left an observed row of that root active
C28_Witness ==
  /\ lastCall.op = "markMissingFilesDeleted"
  /\ lastCall.existingPaths # <<>>
  /\ lastCall.rootDir # absolutePath(lastCall.rootDir)
  /\ lastCall.ret = 1
  /\ \E r \in media : r.status = "active" /\ r.root_dir = absolutePath(lastCall.rootDir)
  /\ \E r \in media : r.status = "deleted"

\* C29: every run calls markMissingFilesDeleted once, with its enumeration
\* of the root, before it loads the snapshot and before it processes a file;
\* the call soft-deletes the active rows of the root whose file is not in
\* the enumeration, also in a run that is cancelled before its first file.
C29_MarkBeforeFiles ==
  /\ [](\A r \in RunIds :
          IF runs[r].pc \in {"started", "mark"}
          THEN /\ runs[r].marked = 0
               /\ runs[r].existingMap = <<>>
               /\ runs[r].idx = 0 /\ runs[r].progressEmitted = 0
               /\ runs[r].result = ScanResult
          ELSE runs[r].marked = 1)
  /\ [][\A r \in RunIds :
          LET listed == { runs'[r].files[i] : i \in 1..Len(runs'[r].files) } IN
          /\ (runs[r].pc = "started" /\ runs'[r].pc # "started") =>
               listed = { p \in DOMAIN fs : IsPrefix(runs[r].m_rootDir, p.dir)
                                            /\ typeFromExtension(DotExt(p)) # "unknown" }
          /\ runs'[r].marked # runs[r].marked =>
               /\ runs'[r].files = runs[r].files
               /\ \A row \in media :
                    (row.root_dir = runs[r].m_rootDir /\ row.file_path \notin listed)
                      => \E now \in media' : now.id = row.id /\ now.status = "deleted"]_vars

\* A run that was cancelled before its first file has ended, and the row of
\* a file that vanished before it is soft-deleted
C29_Witness ==
  \E r \in RunIds :
    /\ runs[r].m_cancelled /\ runs[r].idx = 0 /\ runs[r].total > 0
    /\ runs[r].pc \in {"exec", "finished"}
    /\ \E row \in media : /\ row.root_dir = runs[r].m_rootDir
                           /\ row.status = "deleted"
                           /\ row.file_path \notin DOMAIN fs

\* C30: fast skip. When the snapshot entry of a file has the file's current
\* size and modified time and a non-empty hash, and the thumbnail file it
\* records exists, the iteration counts the file as scanned and does nothing
\* else: the files (so every thumbnail), the store and the other counters
\* stay as they are.
C30_FastSkip ==
  [][\A r \in RunIds :
       (runs[r].pc = "file" /\ runs'[r].idx = runs[r].idx + 1) =>
         LET path == runs[r].files[runs[r].idx + 1]
             snapshot == runs[r].existingMap
         IN (/\ path \in DOMAIN snapshot
             /\ path \in DOMAIN fs
             /\ snapshot[path].size_bytes = SizeOf(fs[path].bytes)
             /\ snapshot[path].modified_time_utc = fs[path].mtime
             /\ snapshot[path].sha256 # NoText
             /\ snapshot[path].thumbnail_path # NoPath
             /\ snapshot[path].thumbnail_path \in DOMAIN fs)
            => /\ fs' = fs
               /\ storeVars' = storeVars
               /\ overwrites' = overwrites /\ thrown' = thrown
               /\ runs'[r].result =
                    [runs[r].result EXCEPT !.scanned = @ + 1]]_vars

\* A run has skipped its first file: the file is counted as scanned only,
\* and its snapshot entry matches the file and names an existing thumbnail
C30_Witness ==
  \E r \in RunIds :
    /\ runs[r].idx = 1 /\ runs[r].pc = "loop"
    /\ runs[r].result = [ScanResult EXCEPT !.scanned = 1]
    /\ LET path == runs[r].files[1] IN
       /\ path \in DOMAIN runs[r].existingMap
       /\ path \in DOMAIN fs
       /\ runs[r].existingMap[path].modified_time_utc = fs[path].mtime
       /\ runs[r].existingMap[path].sha256 # NoText
       /\ runs[r].existingMap[path].thumbnail_path \in DOMAIN fs

\* The iteration of run r that a step completes meets a snapshot entry with
\* the file's size, modified time and a hash, whose thumbnail is not on disk
RefreshCase(r) ==
  LET path == runs[r].files[runs[r].idx + 1]
      snapshot == runs[r].existingMap
  IN /\ runs[r].pc = "file"
     /\ path \in DOMAIN snapshot
     /\ path \in DOMAIN fs
     /\ snapshot[path].size_bytes = SizeOf(fs[path].bytes)
     /\ snapshot[path].modified_time_utc = fs[path].mtime
     /\ snapshot[path].sha256 # NoText
     /\ ~(/\ snapshot[path].thumbnail_path # NoPath
          /\ snapshot[path].thumbnail_path \in DOMAIN fs)

\* C31: thumbnail-only refresh. When the snapshot entry of a file has the
\* file's size and modified time and a non-empty hash but its thumbnail file
\* is missing, the iteration writes no file other than <existing hash>.jpg in
\* the run's thumbnails directory (and writes that one when the image or
\* video decodes), changes no column of any row except the thumbnail path of
\* the file's row, which becomes that path, and counts the file as scanned
\* only.
C31_ThumbnailRefresh ==
  [][\A r \in RunIds :
       (RefreshCase(r) /\ runs'[r].idx = runs[r].idx + 1) =>
         LET path == runs[r].files[runs[r].idx + 1]
             prev == runs[r].existingMap[path]
             dest == FilePath(runs[r].m_thumbnailsDir, prev.sha256, jpg)
         IN /\ DOMAIN fs' \ {dest} = DOMAIN fs \ {dest}
            /\ \A p \in DOMAIN fs \ {dest} : fs'[p] = fs[p]
            /\ ((isImageFile(path) \/ isVideoFile(path)) /\ Decodable(fs[path].bytes))
                 => dest \in DOMAIN fs'
            /\ Cardinality(media') = Cardinality(media)
            /\ \A row \in media :
                 \/ row \in media'
                 \/ /\ row.file_path = path
                    /\ row.thumbnail_path # dest
                    /\ [row EXCEPT !.thumbnail_path = dest] \in media'
            /\ tags' = tags /\ media_tags' = media_tags
            /\ thrown' = thrown
            /\ runs'[r].result =
                 [runs[r].result EXCEPT !.scanned = @ + 1]]_vars

\* The user deleted a thumbnail after the first scan and left the library
\* alone; the second scan has just met the file, whose snapshot entry still
\* matches, and the thumbnail is on disk again, written after that deletion
C31_Witness ==
  \E r \in RunIds :
    /\ r = 2 /\ fsOps = 1
    /\ runs[r].pc = "loop" /\ runs[r].idx >= 1
    /\ Cardinality({ p \in DOMAIN fs : p.dir \in Roots }) = 3
    /\ \A p \in DOMAIN fs : p.dir \in Roots => fs[p].mtime = 1
    /\ LET path == runs[r].files[runs[r].idx]
           snapshot == runs[r].existingMap
       IN /\ path \in DOMAIN snapshot
          /\ path \in DOMAIN fs
          /\ path.dir \in Roots
          /\ snapshot[path].size_bytes = SizeOf(fs[path].bytes)
          /\ snapshot[path].sha256 # NoText
          /\ LET dest == FilePath(runs[r].m_thumbnailsDir, snapshot[path].sha256, jpg)
             IN /\ dest \in DOMAIN fs
                /\ fs[dest].mtime = Now
                /\ \E row \in media : row.file_path = path /\ row.thumbnail_path = dest

\* The iteration of run r that a step completes processes its file in full:
\* the snapshot has no entry for the file, or one that does not match it
FullCase(r) ==
  LET path == runs[r].files[runs[r].idx + 1]
      snapshot == runs[r].existingMap
  IN /\ runs[r].pc = "file"
     /\ path \in DOMAIN fs
     /\ path \in DOMAIN snapshot =>
          \/ toLongLong(snapshot[path].size_bytes) # SizeOf(fs[path].bytes)
          \/ toLongLong(snapshot[path].modified_time_utc) # fs[path].mtime
          \/ snapshot[path].sha256 = NoText

\* C32: after a file was processed in full (no exception), its row has no
\* thumbnail path when the file is audio, and a thumbnail path only when the
\* file at that path is on disk (generated now or there before); so the path
\* is absent when generating the thumbnail of an image or video failed.
C32_ThumbnailPathMeansFile ==
  [][\A r \in RunIds :
       (FullCase(r) /\ runs'[r].idx = runs[r].idx + 1 /\ thrown' = thrown) =>
         LET path == runs[r].files[runs[r].idx + 1]
         IN \A row \in media' :
              row.file_path = path =>
                /\ typeFromExtension(DotExt(path)) = "audio" => row.thumbnail_path = NoPath
                /\ row.thumbnail_path # NoPath => row.thumbnail_path \in DOMAIN fs']_vars

\* Run r has emitted finished(result): its summary is final
SummaryEmitted(r) == runs[r].pc \in {"exec", "finished"}

\* C33: in the summary a run emits, scanned is the number of progress signals
\* the run emitted, addedOrUpdated + errors <= scanned <= total, and scanned
\* is the number of enumerated files unless the run was cancelled; the
\* summary the caller receives is that summary.
C33_SummaryCounts ==
  \A r \in RunIds :
    /\ SummaryEmitted(r) =>
         /\ runs[r].result.scanned = runs[r].progressEmitted
         /\ runs[r].result.addedOrUpdated + runs[r].result.errors <= runs[r].result.scanned
         /\ runs[r].result.scanned <= runs[r].total
         /\ runs[r].total = Len(runs[r].files)
         /\ ~runs[r].m_cancelled => runs[r].result.scanned = Len(runs[r].files)
    /\ runs[r].scanFinished > 0 =>
         /\ SummaryEmitted(r)
         /\ runs[r].summary = runs[r].result

\* The caller has the summary of a run that was cancelled after its first
\* file, and of a run that went through both of its files, one with an error
C33_Witness ==
  /\ \E r \in RunIds :
       /\ runs[r].scanFinished = 1 /\ runs[r].m_cancelled
       /\ runs[r].total = 2 /\ runs[r].progressEmitted = 1
       /\ runs[r].summary.scanned = 1
  /\ \E r \in RunIds :
       /\ runs[r].scanFinished = 1 /\ ~runs[r].m_cancelled
       /\ runs[r].progressEmitted = 2
       /\ runs[r].summary = [scanned |-> 2, addedOrUpdated |-> 1, errors |-> 1]

\* C34: while the thread of the run the most recent scanDirectory() started
\* is running, m_workerThread and m_worker are that run's (so isRunning() is
\* true and cancel() reaches that run's flag), and the handler of a run's
\* finished(result) quits no thread but that run's own.
C34_HandlesOfLatestRun ==
  /\ [](runs # <<>> /\ ThreadRunning(Len(runs))
         => m_workerThread = Len(runs) /\ m_worker = Len(runs) /\ isRunning)
  /\ [][\A r \in RunIds :
          runs'[r].scanFinished = runs[r].scanFinished + 1 =>
            \A later \in RunIds \ {r} : runs'[later].quit = runs[later].quit]_vars

\* requestThumbnail(1, path, targetSize) was the last call on the cache
Requested(targetSize) ==
  /\ cacheCall.op = "requestThumbnail"
  /\ cacheCall.mediaId = 1 /\ cacheCall.targetSize = targetSize

\* The last delivery notified the caller about media row 1: loaded, with
\* (1, targetSize) in the cache, or failed
Answered(targetSize) ==
  /\ cacheCall.emitted # <<>>
  /\ cacheCall.emitted[1].mediaId = 1
  /\ \/ cacheCall.emitted[1].signal = "thumbnailFailed"
     \/ /\ cacheCall.emitted[1].signal = "thumbnailLoaded"
        /\ CacheContains(m_cache, cacheKey(1, targetSize))

\* cancelRequest(1) was the last call on the cache
CancelFollowed == cacheCall.op \in {"cancelRequest", "cancelPendingRequests"}

\* C35: a request for (id, size) whose thumbnail file exists leads to a
\* loaded notification with (id, size) in the cache or to a failure
\* notification, unless a cancel of the id follows it; and a delivered
\* result is stored only when it is the result of the request that is
\* pending (not of a cancelled one), under the key of that request.
C35_RequestIsAnswered ==
  /\ \A targetSize \in TargetSizes :
       Requested(targetSize) ~> (Answered(targetSize) \/ CancelFollowed \/ crashed)
  /\ [][(cacheCall'.op = "onThumbnailLoaded" /\ cacheQueue' = Tail(cacheQueue)
           /\ m_cache' # m_cache)
          => /\ ~Head(cacheQueue).cancelled
             /\ Head(m_cache').key =
                  cacheKey(Head(cacheQueue).mediaId, Head(cacheQueue).targetSize)]_vars

\* C36: the callback a task posted finds the data it uses alive when the
\* cache's thread runs it: the process survives it, and it calls
\* onThumbnailLoaded with the media id and the size of the task that posted
\* it, not with what lies in the deleted task's memory by then.
C36_CallbackUsesLiveData ==
  [][(cacheQueue # <<>> /\ cacheQueue' = Tail(cacheQueue)
        /\ Head(cacheQueue).kind = "task")
       => /\ ~crashed'
          /\ cacheCall'.op = "onThumbnailLoaded"
          /\ cacheCall'.mediaId = Head(cacheQueue).mediaId
          /\ cacheCall'.targetSize = Head(cacheQueue).targetSize]_vars

\* C37: for every tag, the count tagCounts() reports is the number of active
\* media rows that carry the tag, which is the totalCount of queryMedia with
\* that tag alone; the associations of soft-deleted rows are not counted.
C37_TagCountsActive ==
  \A t \in tags :
    /\ tagCounts(media, tags, media_tags)[t.name] =
         queryMedia(media, tags, media_tags, << t.name >>, NoText, 10, 0, NoDir, TRUE).totalCount
    /\ tagCounts(media, tags, media_tags)[t.name] =
         Cardinality({ r \in media : /\ r.status = "active"
                                      /\ \E l \in media_tags :
                                           l.media_id = r.id /\ l.tag_id = t.id })

\* The thumbnails directories of the runs so far
ThumbnailDirs == { runs[r].m_thumbnailsDir : r \in RunIds }

\* C38: no file in the thumbnails directory of a scan is among the files a
\* run enumerates, and none has a media row.
C38_OwnOutputNotIndexed ==
  /\ \A r \in RunIds : \A i \in 1..Len(runs[r].files) :
       runs[r].files[i].dir \notin ThumbnailDirs
  /\ \A row \in media : row.file_path.dir \notin ThumbnailDirs

\* C39: when a run that was not cancelled leaves its loop, every file it
\* enumerated has an active row that existingMediaMapForRoot of the run's
\* root contains and that queryMedia with that root returns, whichever root
\* the path was first indexed under.
C39_RecordUnderScannedRoot ==
  [][\A r \in RunIds :
       (runs[r].pc = "loop" /\ runs'[r].pc = "exec" /\ ~runs[r].m_cancelled) =>
         \A i \in 1..Len(runs[r].files) :
           LET path == runs[r].files[i]
               root == runs[r].m_rootDir
           IN /\ \E row \in media' : row.file_path = path /\ row.status = "active"
              /\ path \in DOMAIN existingMediaMapForRoot(media', root)
              /\ \E row \in whereSQL(media', tags', media_tags', <<>>, NoText, root, TRUE) :
                   row.file_path = path]_vars

====
